---- MODULE Spec2Model ----
(***************************************************************************)
(* Verification model of the LusiLearn AI service (apps/ai-service).       *)
(*                                                                         *)
(* The service is a set of long-lived objects (AIService and the engines   *)
(* it owns).  Each component is modelled by its own variables and its own  *)
(* specification:                                                          *)
(*   SpecSeq   LearningPathAlgorithm.sequence_with_prerequisites           *)
(*   SpecPeer  PeerMatchingEngine.find_peer_matches                        *)
(*   SpecRate  OpenAIService / GeminiService._check_rate_limits            *)
(*   SpecRec   ContentRecommendationEngine: updates and recommendations    *)
(*   SpecOrch  AIService: provider selection, fallback, blending           *)
(*   SpecPath  LearningPathAlgorithm: adaptation, fallback, generation     *)
(*   SpecDiversity  ContentRecommendationEngine._apply_diversity_filter    *)
(*   SpecLoop  what runs on the event loop of the service process:         *)
(*             concurrent feedback requests, the health monitoring task    *)
(***************************************************************************)
EXTENDS Integers, Sequences, FiniteSets, TLC

VARIABLES
    seqPc,          \* "start" before the call, "done" after it returned
    seqObjectives,  \* argument `objectives` of sequence_with_prerequisites
    seqCompleted,   \* argument `user_completed`
    seqResult,      \* the returned list
    pmPc,           \* "start" before find_peer_matches, "done" after it
    pmRequest,      \* the PeerMatchingRequest
    pmStrategy,     \* the MatchingStrategy
    pmMaxMatches,   \* argument max_matches
    pmResult,       \* the returned list of PeerMatch
    user_profiles,  \* PeerMatchingEngine.user_profiles: user id -> profile
    rlProvider,     \* the provider client whose limiter is exercised
    rlNow,          \* datetime.now(), in minutes since 1900-01-01 00:00
    rlTracker,      \* the client's _rate_limit_tracker: key -> count
    rlAccepted,     \* history: calls accepted per operation in the minute rlNow
    rlLast,         \* outcome of the last _check_rate_limits call
    recPc,          \* "start" before get_personalized_recommendations, "done" after
    recRequest,     \* the ContentRecommendationRequest
    recProfile,     \* argument user_profile
    recStrategy,    \* the RecommendationStrategy
    recMaxN,        \* argument max_recommendations
    recResult,      \* the returned list of ContentRecommendation
    recUpdates,     \* history: number of update_* calls made so far
    content_embeddings,       \* engine cache: content id -> embedding
    user_interaction_matrix,  \* engine: user id -> content id -> score
    peer_success_rates,       \* engine: content id -> success rate
    orchPc,           \* "start" before the AIService call, "done" after it
    orchOp,           \* the operation the run is about
    orchRequest,      \* the LearningPathRequest / ContentRecommendationRequest
    orchProvider,     \* argument `provider` ("" for None)
    orchStrategy,     \* argument `strategy` ("" for None)
    current_provider, \* AIService.current_provider
    enable_fallbacks, \* settings.ENABLE_FALLBACKS
    orchStubs,        \* what each provider client does when it is called
    orchCalls,        \* history: the provider invocations of the call, in order
    orchResult,       \* what the call returned, or that it raised
    orchSwitch,       \* history: the last set_provider call, its argument
                      \* and whether it raised ConfigurationError
    lpPc,           \* "start" before a LearningPathAlgorithm call, "done" after
    lpOp,           \* the method that is called: "adapt", "fallback", "generate"
    lpArgs,         \* the arguments of the last call, besides the path
    lpPath,         \* the learning path the caller holds
    lpPrev,         \* the path the caller held before the last call
    lpCalls,        \* history: number of calls made so far
    lpNow,          \* datetime.now()
    lpRaised,       \* whether the last call raised
    lpHashOrder,    \* the topics in the order of their string hashes in the
                    \* interpreter process that serves the calls
    loopOp,              \* what runs on the event loop: "feedback", "health"
    interaction_history, \* PeerMatchingEngine.interaction_history
    feedback_requests,   \* the feedback requests in flight: arguments and
                         \* position of each
    monitoring_task,     \* HealthService._monitoring_task: its position,
                         \* whether cancel() was requested, how it ended
    health_checks,       \* history: number of health checks started
    closePc,             \* position of HealthService.close
    closeError           \* the exception close raised, "" for none

seqVars == <<seqPc, seqObjectives, seqCompleted, seqResult>>

pmVars == <<pmPc, pmRequest, pmStrategy, pmMaxMatches, pmResult, user_profiles>>

rlVars == <<rlProvider, rlNow, rlTracker, rlAccepted, rlLast>>

recCallVars == <<recPc, recRequest, recProfile, recStrategy, recMaxN, recResult,
                 recUpdates>>

recStores == <<content_embeddings, user_interaction_matrix, peer_success_rates>>

recVars == <<recCallVars, recStores>>

orchVars == <<orchPc, orchOp, orchRequest, orchProvider, orchStrategy,
              current_provider, enable_fallbacks, orchStubs, orchCalls, orchResult,
              orchSwitch>>

lpVars == <<lpPc, lpOp, lpArgs, lpPath, lpPrev, lpCalls, lpNow, lpRaised,
            lpHashOrder>>

loopVars == <<loopOp, interaction_history, feedback_requests, monitoring_task,
              health_checks, closePc, closeError>>

vars == <<seqVars, pmVars, rlVars, recVars, orchVars, lpVars, loopVars>>

seqOthers == <<pmVars, rlVars, recVars, orchVars, lpVars, loopVars>>

pmOthers == <<seqVars, rlVars, recVars, orchVars, lpVars, loopVars>>

rlOthers == <<seqVars, pmVars, recVars, orchVars, lpVars, loopVars>>

recOthers == <<seqVars, pmVars, rlVars, orchVars, lpVars, loopVars>>

lpOthers == <<seqVars, pmVars, rlVars, recVars, orchVars, loopVars>>

loopOthers == <<seqVars, pmVars, rlVars, recVars, orchVars, lpVars>>

\* the orchestrator owns the recommendation engine: its stores are not among
\* the variables an orchestrator call leaves alone
orchOthers == <<seqVars, pmVars, rlVars, recCallVars, lpVars, loopVars>>

(***************************************************************************)
(* Each specification exercises one component; the other components stay   *)
(* in the state their constructor leaves them in.                          *)
(***************************************************************************)
SeqIdle ==
    /\ seqPc = "idle"
    /\ seqObjectives = <<>>
    /\ seqCompleted = {}
    /\ seqResult = <<>>

\* PeerMatchingEngine.__init__ / _load_user_profiles: user_profiles = {}
PmIdle ==
    /\ pmPc = "idle"
    /\ pmRequest = <<>>
    /\ pmStrategy = "comprehensive"
    /\ pmMaxMatches = 10
    /\ pmResult = <<>>
    /\ user_profiles = <<>>

\* OpenAIService.__init__ / GeminiService.__init__: _rate_limit_tracker = {}
RlIdle ==
    /\ rlProvider = "openai"
    /\ rlNow = 0
    /\ rlTracker = <<>>
    /\ rlAccepted = <<>>
    /\ rlLast = "idle"

\* ContentRecommendationEngine.initialize: the sample stores
\* (_initialize_interaction_matrix, _load_peer_success_rates) and an empty
\* embedding cache; scores are <<numerator, denominator>>
InitialInteractionMatrix ==
    [user_1 |-> [content_math_1 |-> <<4, 5>>, content_science_1 |-> <<3, 5>>],
     user_2 |-> [content_math_1 |-> <<9, 10>>, content_programming_1 |-> <<7, 10>>],
     user_3 |-> [content_science_1 |-> <<7, 10>>, content_history_1 |-> <<4, 5>>]]

InitialPeerSuccessRates ==
    [content_math_1 |-> <<17, 20>>, content_science_1 |-> <<39, 50>>,
     content_programming_1 |-> <<41, 50>>, content_history_1 |-> <<3, 4>>]

RecStoresInitial ==
    /\ content_embeddings = <<>>
    /\ user_interaction_matrix = InitialInteractionMatrix
    /\ peer_success_rates = InitialPeerSuccessRates

RecCallIdle ==
    /\ recPc = "idle"
    /\ recRequest = <<>>
    /\ recProfile = <<>>
    /\ recStrategy = "hybrid"
    /\ recMaxN = 10
    /\ recResult = <<>>
    /\ recUpdates = 0

RecIdle == RecCallIdle /\ RecStoresInitial

\* AIService.__init__: current_provider = AIProvider(settings.AI_PROVIDER.lower())
OrchIdle ==
    /\ orchPc = "idle"
    /\ orchOp = "learning_path"
    /\ orchRequest = <<>>
    /\ orchProvider = ""
    /\ orchStrategy = ""
    /\ current_provider = "openai"
    /\ enable_fallbacks = TRUE
    /\ orchStubs = <<>>
    /\ orchCalls = <<>>
    /\ orchResult = <<>>
    /\ orchSwitch = <<>>

\* no call of the learning-path algorithm has been made
LpIdle ==
    /\ lpPc = "idle"
    /\ lpOp = "adapt"
    /\ lpArgs = <<>>
    /\ lpPath = <<>>
    /\ lpPrev = <<>>
    /\ lpCalls = 0
    /\ lpNow = 0
    /\ lpRaised = FALSE
    /\ lpHashOrder = <<>>

\* no request is in flight and HealthService.initialize has not run:
\* interaction_history = {}, _monitoring_task = None
LoopIdle ==
    /\ loopOp = "feedback"
    /\ interaction_history = <<>>
    /\ feedback_requests = <<>>
    /\ monitoring_task = <<>>
    /\ health_checks = 0
    /\ closePc = "idle"
    /\ closeError = ""

SeqOthersIdle == PmIdle /\ RlIdle /\ RecIdle /\ OrchIdle /\ LpIdle /\ LoopIdle

PmOthersIdle == SeqIdle /\ RlIdle /\ RecIdle /\ OrchIdle /\ LpIdle /\ LoopIdle

RlOthersIdle == SeqIdle /\ PmIdle /\ RecIdle /\ OrchIdle /\ LpIdle /\ LoopIdle

RecOthersIdle == SeqIdle /\ PmIdle /\ RlIdle /\ OrchIdle /\ LpIdle /\ LoopIdle

OrchOthersIdle == SeqIdle /\ PmIdle /\ RlIdle /\ RecCallIdle /\ LpIdle /\ LoopIdle

LpOthersIdle == SeqIdle /\ PmIdle /\ RlIdle /\ RecIdle /\ OrchIdle /\ LoopIdle

LoopOthersIdle == SeqIdle /\ PmIdle /\ RlIdle /\ RecIdle /\ OrchIdle /\ LpIdle

(***************************************************************************)
(* Generic helpers on sequences.                                           *)
(***************************************************************************)
Range(s) == {s[i] : i \in 1..Len(s)}

\* list.remove(x): drops the first element equal to x
RemoveFirst(s, x) ==
    LET i == CHOOSE k \in 1..Len(s) : s[k] = x /\ \A j \in 1..(k-1) : s[j] # x
    IN  SubSeq(s, 1, i-1) \o SubSeq(s, i+1, Len(s))

RECURSIVE RemoveAll(_, _)
\* for obj in ready: remaining.remove(obj)
RemoveAll(s, xs) ==
    IF xs = <<>> THEN s ELSE RemoveAll(RemoveFirst(s, Head(xs)), Tail(xs))

\* dict.get(key, default)
Get(d, key, default) == IF key \in DOMAIN d THEN d[key] ELSE default

RECURSIVE Flatten(_)
\* the concatenation of a list of lists (list.extend in a loop)
Flatten(lists) ==
    IF lists = <<>> THEN <<>> ELSE Head(lists) \o Flatten(Tail(lists))

SelectSeqIdx(s, Test(_)) ==
    LET F[i \in 0..Len(s)] ==
            IF i = 0 THEN <<>>
            ELSE IF Test(i) THEN Append(F[i-1], s[i]) ELSE F[i-1]
    IN  F[Len(s)]

(***************************************************************************)
(* Learning-path algorithm: prerequisite sequencing.                       *)
(* An objective is the dict the code handles: a record whose fields are    *)
(* the dict's keys.  Every objective carries an 'id' key, so                *)
(* obj.get('id', obj.get('title', '')) is obj['id'].                        *)
(***************************************************************************)
MaxObjectives == 3

ObjectiveIds == {"A", "B", "C"}

Objective == [id : ObjectiveIds, prerequisites : SUBSET ObjectiveIds]

ObjectiveLists == UNION {[1..n -> Objective] : n \in 0..MaxObjectives}

CompletedChoices == {{}, {"A"}}

\* dependencies[obj_id] = obj.get('prerequisites', []); a later objective
\* with the same id overwrites the entry of an earlier one
BuildObjectiveDependencies(objectives) ==
    [k \in {objectives[i].id : i \in 1..Len(objectives)} |->
        LET last == CHOOSE i \in 1..Len(objectives) :
                        /\ objectives[i].id = k
                        /\ \A j \in (i+1)..Len(objectives) : objectives[j].id # k
        IN  Get(objectives[last], "prerequisites", {})]

\* all(prereq in completed or any(sorted_obj.get('id') == prereq ...))
ReadyBuggy(obj, dependency_graph, completed, sorted_objectives) ==
    \E prereq \in dependency_graph[obj.id] :
        \/ prereq \in completed
        \/ \E i \in 1..Len(sorted_objectives) : sorted_objectives[i].id = prereq

Ready(obj, dependency_graph, completed, sorted_objectives) ==
    \A prereq \in dependency_graph[obj.id] :
        \/ prereq \in completed
        \/ \E i \in 1..Len(sorted_objectives) : sorted_objectives[i].id = prereq

RECURSIVE TopoRounds(_, _, _, _)
\* one iteration of `while remaining:` per unfolding
TopoRounds(sorted_objectives, remaining, dependency_graph, completed) ==
    IF remaining = <<>> THEN sorted_objectives
    ELSE
        LET found == SelectSeqIdx(remaining,
                        LAMBDA i : Ready(remaining[i], dependency_graph,
                                         completed, sorted_objectives))
            ready == IF found = <<>> THEN <<remaining[1]>> ELSE found
        IN  TopoRounds(sorted_objectives \o ready, RemoveAll(remaining, ready),
                       dependency_graph, completed)

TopologicalSortWithConstraints(objectives, dependency_graph, completed) ==
    TopoRounds(<<>>, objectives, dependency_graph, completed)

\* as CheckPrerequisitesMet, but looking at the completed ids only
CheckPrerequisitesMetCompletedOnly(objective, completed, previous_in_sequence) ==
    \A prereq \in Get(objective, "prerequisites", {}) : prereq \in completed

\* _check_prerequisites_met reads the objective's own 'prerequisites'
CheckPrerequisitesMet(objective, completed, previous_in_sequence) ==
    \A prereq \in Get(objective, "prerequisites", {}) :
        \/ prereq \in completed
        \/ \E i \in 1..Len(previous_in_sequence) :
               previous_in_sequence[i].id = prereq

SequenceWithPrerequisitesZeroBased(objectives, user_completed) ==
    LET dependency_graph == BuildObjectiveDependencies(objectives)
        sequenced == TopologicalSortWithConstraints(objectives, dependency_graph,
                                                    user_completed)
    IN  [i \in 1..Len(sequenced) |->
            [sequence_number |-> i - 1,
             prerequisites_met |->
                 CheckPrerequisitesMet(sequenced[i], user_completed,
                                       SubSeq(sequenced, 1, i-1))]
            @@ sequenced[i]]

\* obj['sequence_number'] = i + 1 for i, obj in enumerate(sequenced)
SequenceWithPrerequisites(objectives, user_completed) ==
    LET dependency_graph == BuildObjectiveDependencies(objectives)
        sequenced == TopologicalSortWithConstraints(objectives, dependency_graph,
                                                    user_completed)
    IN  [i \in 1..Len(sequenced) |->
            [sequence_number |-> i,
             prerequisites_met |->
                 CheckPrerequisitesMet(sequenced[i], user_completed,
                                       SubSeq(sequenced, 1, i-1))]
            @@ sequenced[i]]

SeqInit ==
    /\ seqPc = "start"
    /\ seqObjectives \in ObjectiveLists
    /\ seqCompleted \in CompletedChoices
    /\ seqResult = <<>>
    /\ SeqOthersIdle

SequenceCall ==
    /\ seqPc = "start"
    /\ seqResult' = SequenceWithPrerequisites(seqObjectives, seqCompleted)
    /\ seqPc' = "done"
    /\ UNCHANGED <<seqObjectives, seqCompleted, seqOthers>>

SeqNext == SequenceCall

SpecSeq == SeqInit /\ [][SeqNext]_vars

(***************************************************************************)
(* Properties of the sequencing.                                           *)
(***************************************************************************)
IdsOf(objectives) == {objectives[i].id : i \in 1..Len(objectives)}

\* <<x, y>>: some objective with id x lists y as a prerequisite
RequiresOf(objectives) ==
    UNION {{<<objectives[i].id, p>> : p \in objectives[i].prerequisites} :
               i \in 1..Len(objectives)}

RECURSIVE ReachableFrom(_, _, _)
ReachableFrom(rel, frontier, seen) ==
    LET next == {e[2] : e \in {r \in rel : r[1] \in frontier}} \ seen
    IN  IF next = {} THEN seen ELSE ReachableFrom(rel, next, seen \cup next)

Acyclic(objectives) ==
    \A x \in IdsOf(objectives) :
        x \notin ReachableFrom(RequiresOf(objectives), {x}, {})

Resolvable(objectives, completed) ==
    \A i \in 1..Len(objectives) :
        objectives[i].prerequisites \subseteq (IdsOf(objectives) \cup completed)

DistinctIds(objectives) ==
    \A i, j \in 1..Len(objectives) : i # j => objectives[i].id # objectives[j].id

\* every objective of the result comes after each of its prerequisites that
\* is not in user_completed
PrerequisiteOrder(result, completed) ==
    \A i \in 1..Len(result) :
        \A p \in result[i].prerequisites \ completed :
            \E j \in 1..(i-1) : result[j].id = p

\* C1 as stated: for every objective list whose prerequisite relation is
\* acyclic and whose prerequisites all name objectives of the list or
\* completed ids, the returned order puts each objective after every one of
\* its prerequisites that is not completed.
C1_AnyAcyclicListOrdered ==
    (seqPc = "done" /\ Acyclic(seqObjectives)
        /\ Resolvable(seqObjectives, seqCompleted))
    => PrerequisiteOrder(seqResult, seqCompleted)

\* C1 amended: the same, for lists whose objective ids are pairwise
\* distinct.
C1_DistinctAcyclicListOrdered ==
    (seqPc = "done" /\ Acyclic(seqObjectives)
        /\ Resolvable(seqObjectives, seqCompleted)
        /\ DistinctIds(seqObjectives))
    => PrerequisiteOrder(seqResult, seqCompleted)

\* the example of the claim: [C, A, B] comes out as [A, B, C]
C1_Witness ==
    /\ seqPc = "done"
    /\ seqCompleted = {}
    /\ seqObjectives = <<[id |-> "C", prerequisites |-> {"A", "B"}],
                         [id |-> "A", prerequisites |-> {}],
                         [id |-> "B", prerequisites |-> {"A"}]>>
    /\ [i \in 1..3 |-> seqResult[i].id] = <<"A", "B", "C">>

\* the objective as it was passed in: without the keys the call adds
AsPassedIn(objective) ==
    [k \in DOMAIN objective \ {"sequence_number", "prerequisites_met"} |->
        objective[k]]

Occurrences(objectives, objective) ==
    Cardinality({i \in 1..Len(objectives) : objectives[i] = objective})

RECURSIVE GCD(_, _)
GCD(a, b) == IF b = 0 THEN a ELSE GCD(b, a % b)

Abs(x) == IF x < 0 THEN -x ELSE x

Rat(n, d) == LET g == GCD(Abs(n), d) IN <<n \div g, d \div g>>

RatAdd(x, y) == Rat(x[1] * y[2] + y[1] * x[2], x[2] * y[2])

RatMul(x, y) == Rat(x[1] * y[1], x[2] * y[2])

RatLeq(x, y) == x[1] * y[2] <= y[1] * x[2]

RatLess(x, y) == x[1] * y[2] < y[1] * x[2]

RatZero == Rat(0, 1)

RatOne == Rat(1, 1)

InUnitInterval(x) == RatLeq(RatZero, x) /\ RatLeq(x, RatOne)

Max(a, b) == IF a >= b THEN a ELSE b

Min(a, b) == IF a <= b THEN a ELSE b

\* Python slice s[a:b] for 0 <= a <= b
Slice(s, a, b) == SubSeq(s, a + 1, Min(b, Len(s)))

(***************************************************************************)
(* Peer matching engine.                                                   *)
(* A PeerMatch keeps user_id, compatibility_score and match_reasons; the   *)
(* descriptive fields (shared_subjects, complementary_skills, common_goals,*)
(* availability_overlap, communication_match) decide nothing and are left  *)
(* out.  A learning goal f"learn {subject}" is the pair                    *)
(* <<"learn", subject>>.  A time slot                                      *)
(* "HH:MM-HH:MM" is kept as its four numbers and parsed by TimeToMinutes;  *)
(* a slot without "-" is kept as its text.                                 *)
(***************************************************************************)
NumCandidates == 20

education_levels == <<"k12", "college", "professional">>

subjects == <<"mathematics", "science", "programming", "history", "language">>

DifficultyLevels == <<"beginner", "intermediate", "advanced">>

RangeSlot(h1, m1, h2, m2) ==
    [dash |-> TRUE, start |-> <<h1, m1>>, end |-> <<h2, m2>>, text |-> ""]

TokenSlot(t) ==
    [dash |-> FALSE, start |-> <<0, 0>>, end |-> <<0, 0>>, text |-> t]

\* f"peer_{request.user_id}_{i}"
PeerId(user_id, i) == "peer_" \o user_id \o "_" \o ToString(i)

CandidatePeer(user_id, i) ==
    [user_id |-> PeerId(user_id, i),
     education_level |-> education_levels[(i % Len(education_levels)) + 1],
     subjects |-> Slice(subjects, i % Len(subjects), (i % Len(subjects)) + 2),
     skill_levels |-> (subjects[(i % Len(subjects)) + 1] :> DifficultyLevels[(i % 3) + 1]),
     learning_goals |-> {<<"learn", subjects[(i % Len(subjects)) + 1]>>,
                         <<"master", subjects[((i + 1) % Len(subjects)) + 1]>>},
     availability |-> [monday |-> <<RangeSlot(9, 0, 11, 0), RangeSlot(14, 0, 16, 0)>>,
                       wednesday |-> <<RangeSlot(10, 0, 12, 0)>>,
                       friday |-> <<RangeSlot(15, 0, 17, 0)>>],
     communication_preferences |->
         Slice(<<"video_call", "chat", "email">>, 0, (i % 3) + 1),
     age_range |-> IF i % 3 = 0 THEN "18-25" ELSE "25-35"]

\* candidates whose user_id differs from the requester's
GetCandidatePeers(request) ==
    LET candidates == [k \in 1..NumCandidates |-> CandidatePeer(request.user_id, k - 1)]
    IN  SelectSeqIdx(candidates,
                     LAMBDA k : candidates[k].user_id # request.user_id)

LevelValue(level) ==
    CASE level = "beginner" -> 1
      [] level = "intermediate" -> 2
      [] level = "advanced" -> 3
      [] OTHER -> 1

RECURSIVE RatSumOver(_, _)
\* sum(scores) for one score per element of S
RatSumOver(S, score) ==
    IF S = {} THEN RatZero
    ELSE LET x == CHOOSE y \in S : TRUE
         IN  RatAdd(score[x], RatSumOver(S \ {x}, score))

CalculateSkillComplementarity(user_skills, peer_skills) ==
    LET common_subjects == DOMAIN user_skills \cap DOMAIN peer_skills
        scores == [subject \in common_subjects |->
                      LET diff == Abs(LevelValue(user_skills[subject])
                                      - LevelValue(peer_skills[subject]))
                      IN  IF diff = 0 THEN Rat(8, 10)
                          ELSE IF diff = 1 THEN Rat(1, 1)
                          ELSE Rat(4, 10)]
    IN  IF DOMAIN user_skills = {} \/ DOMAIN peer_skills = {} THEN RatZero
        ELSE IF common_subjects = {} THEN RatZero
        ELSE RatMul(RatSumOver(common_subjects, scores),
                    Rat(1, Cardinality(common_subjects)))

CalculateGoalAlignment(user_goals, peer_goals) ==
    IF user_goals = {} \/ peer_goals = {} THEN RatZero
    ELSE Rat(Cardinality(user_goals \cap peer_goals),
             Cardinality(user_goals \cup peer_goals))

\* hours * 60 + minutes
TimeToMinutes(t) == t[1] * 60 + t[2]

TimesOverlap(time1, time2) ==
    IF ~time1.dash \/ ~time2.dash THEN time1 = time2
    ELSE ~(\/ TimeToMinutes(time1.end) <= TimeToMinutes(time2.start)
           \/ TimeToMinutes(time2.end) <= TimeToMinutes(time1.start))

\* len() of the list built by _calculate_availability_overlap: one entry per
\* pair (user_slot, peer_slot) of the same day that overlaps
AvailabilityOverlapCount(user_availability, peer_availability) ==
    Cardinality({t \in UNION {{<<day, i, j>> :
                                   i \in 1..Len(user_availability[day]),
                                   j \in 1..Len(peer_availability[day])} :
                              day \in DOMAIN user_availability \cap DOMAIN peer_availability} :
                    TimesOverlap(user_availability[t[1]][t[2]],
                                 peer_availability[t[1]][t[3]])})

\* sum(len(slots) for slots in request.availability.values())
SlotCount(availability) ==
    Cardinality(UNION {{<<day, i>> : i \in 1..Len(availability[day])} :
                           day \in DOMAIN availability})

\* len(set(a) & set(b)) / max(len(a), 1)
CommScore(request, peer) ==
    Rat(Cardinality(Range(request.communication_preferences)
                    \cap Range(peer.communication_preferences)),
        Max(Len(request.communication_preferences), 1))

\* "under" in age_range.lower()
ContainsUnder(age_range) == age_range \in {"under 18", "Under 13"}

\* "18-25" in age_range
Contains1825(age_range) == age_range \in {"18-25"}

\* request.age_range is `request.age_range or ""`: None is kept as ""
DetermineSafetyLevel(request) ==
    IF ContainsUnder(request.age_range) \/ request.education_level = "k12"
    THEN "high"
    ELSE IF Contains1825(request.age_range) \/ request.education_level = "college"
    THEN "medium"
    ELSE "standard"

DetermineSafetyLevelFromProfile(peer_profile) ==
    IF ContainsUnder(peer_profile.age_range) \/ peer_profile.education_level = "k12"
    THEN "high"
    ELSE IF Contains1825(peer_profile.age_range)
            \/ peer_profile.education_level = "college"
    THEN "medium"
    ELSE "standard"

IsSafetyCompatibleLax(user_safety, peer_safety) ==
    IF user_safety = "high" THEN TRUE
    ELSE IF user_safety = "medium" THEN peer_safety \in {"medium", "standard"}
    ELSE IF user_safety = "standard" THEN peer_safety # "high"
    ELSE TRUE

IsSafetyCompatible(user_safety, peer_safety) ==
    IF user_safety = "high" THEN peer_safety = "high"
    ELSE IF user_safety = "medium" THEN peer_safety \in {"medium", "standard"}
    ELSE IF user_safety = "standard" THEN peer_safety # "high"
    ELSE TRUE

CalculateSafetyWeight(user_safety, peer_safety) ==
    IF user_safety = peer_safety THEN Rat(1, 1)
    ELSE IF IsSafetyCompatible(user_safety, peer_safety) THEN Rat(8, 10)
    ELSE Rat(1, 10)

PeerMatch(peer, score, reasons) ==
    [user_id |-> peer.user_id, compatibility_score |-> score, match_reasons |-> reasons]

SkillComplementarityMatching(request, candidate_peers) ==
    [k \in 1..Len(candidate_peers) |->
        PeerMatch(candidate_peers[k],
                  CalculateSkillComplementarity(request.skill_levels,
                                                candidate_peers[k].skill_levels),
                  <<"Skill complementarity score">>)]

LearningGoalAlignmentMatching(request, candidate_peers) ==
    [k \in 1..Len(candidate_peers) |->
        PeerMatch(candidate_peers[k],
                  CalculateGoalAlignment(request.learning_goals,
                                         candidate_peers[k].learning_goals),
                  <<"Goal alignment score">>)]

\* score = (comm_score + avail_score) / 2
CommunicationCompatibilityMatching(request, candidate_peers) ==
    [k \in 1..Len(candidate_peers) |->
        LET peer == candidate_peers[k]
            comm_score == CommScore(request, peer)
            avail_score == Rat(AvailabilityOverlapCount(request.availability,
                                                        peer.availability),
                               Max(SlotCount(request.availability), 1))
        IN  PeerMatch(peer, RatMul(RatAdd(comm_score, avail_score), Rat(1, 2)),
                      <<"Communication compatibility">>)]

\* incompatible candidates are skipped; score = 0.5 * safety_weight
SafetyFocusedMatching(request, candidate_peers) ==
    LET user_safety == DetermineSafetyLevel(request)
        kept == SelectSeqIdx(candidate_peers,
                    LAMBDA k : IsSafetyCompatible(user_safety,
                                   DetermineSafetyLevelFromProfile(candidate_peers[k])))
    IN  [k \in 1..Len(kept) |->
            PeerMatch(kept[k],
                      RatMul(Rat(5, 10),
                             CalculateSafetyWeight(user_safety,
                                 DetermineSafetyLevelFromProfile(kept[k]))),
                      IF user_safety = "high"
                      THEN <<"Safety-verified compatibility",
                             "Age-appropriate matching with enhanced safety">>
                      ELSE <<"Safety-verified compatibility">>)]

\* skill * 0.3 + goal * 0.25 + comm * 0.25 + 0.8 * 0.2
ComprehensiveMatching(request, candidate_peers) ==
    [k \in 1..Len(candidate_peers) |->
        LET peer == candidate_peers[k]
            skill_score == CalculateSkillComplementarity(request.skill_levels,
                                                         peer.skill_levels)
            goal_score == CalculateGoalAlignment(request.learning_goals,
                                                 peer.learning_goals)
            comm_score == CommScore(request, peer)
            safety_score == Rat(8, 10)
        IN  PeerMatch(peer,
                      RatAdd(RatAdd(RatMul(skill_score, Rat(3, 10)),
                                    RatMul(goal_score, Rat(25, 100))),
                             RatAdd(RatMul(comm_score, Rat(25, 100)),
                                    RatMul(safety_score, Rat(2, 10)))),
                      <<"Overall compatibility">>)]

\* as StoredProfile, but a peer without a stored profile is taken for a minor
StoredProfileDefaultMinor(profiles, user_id) ==
    IF user_id \in DOMAIN profiles THEN profiles[user_id]
    ELSE [age_range |-> "under 18", education_level |-> ""]

\* self.user_profiles.get(user_id, {}) read with .get('age_range', '') and
\* .get('education_level', '')
StoredProfile(profiles, user_id) ==
    IF user_id \in DOMAIN profiles THEN profiles[user_id]
    ELSE [age_range |-> "", education_level |-> ""]

ApplySafetyFilters(matches, request, profiles) ==
    LET user_safety_level == DetermineSafetyLevel(request)
        safe == SelectSeqIdx(matches,
                    LAMBDA k : IsSafetyCompatible(user_safety_level,
                                   DetermineSafetyLevelFromProfile(
                                       StoredProfile(profiles, matches[k].user_id))))
    IN  [k \in 1..Len(safe) |->
            IF user_safety_level = "high"
            THEN [safe[k] EXCEPT !.match_reasons =
                      Append(@, "Age-appropriate and safe for minors")]
            ELSE safe[k]]

RECURSIVE SortByScoreDescending(_)
\* list.sort(key=compatibility_score, reverse=True): stable, so matches of
\* equal score keep their order
SortByScoreDescending(matches) ==
    IF matches = <<>> THEN <<>>
    ELSE LET n == Len(matches)
             last == matches[n]
             front == SortByScoreDescending(SubSeq(matches, 1, n - 1))
             before == SelectSeqIdx(front,
                           LAMBDA k : RatLeq(last.compatibility_score,
                                             front[k].compatibility_score))
         IN  before \o <<last>> \o SubSeq(front, Len(before) + 1, n - 1)

TruncateOneLater(s, m) ==
    IF m >= 0 THEN SubSeq(s, 1, Min(m + 1, Len(s)))
    ELSE SubSeq(s, 1, Max(Len(s) + m, 0))

\* Python slice s[:m], m of either sign
Truncate(s, m) ==
    IF m >= 0 THEN SubSeq(s, 1, Min(m, Len(s)))
    ELSE SubSeq(s, 1, Max(Len(s) + m, 0))

FindPeerMatches(request, strategy, max_matches, profiles) ==
    LET candidate_peers == GetCandidatePeers(request)
        matches ==
            CASE strategy = "skill_complementarity" ->
                     SkillComplementarityMatching(request, candidate_peers)
              [] strategy = "learning_goal_alignment" ->
                     LearningGoalAlignmentMatching(request, candidate_peers)
              [] strategy = "communication_compatibility" ->
                     CommunicationCompatibilityMatching(request, candidate_peers)
              [] strategy = "safety_focused" ->
                     SafetyFocusedMatching(request, candidate_peers)
              [] OTHER -> ComprehensiveMatching(request, candidate_peers)
        safe_matches == ApplySafetyFilters(matches, request, profiles)
    IN  IF candidate_peers = <<>> THEN <<>>
        ELSE Truncate(SortByScoreDescending(safe_matches), max_matches)

(***************************************************************************)
(* Requests of the peer-matching check.                                    *)
(***************************************************************************)
MatchingStrategies ==
    {"skill_complementarity", "learning_goal_alignment",
     "communication_compatibility", "safety_focused", "comprehensive"}

PmAgeRanges == {"", "under 18", "18-25", "25-35"}

PmSkillChoices ==
    {<<>>,
     ("mathematics" :> "beginner"),
     ("mathematics" :> "advanced") @@ ("science" :> "intermediate")}

PmGoalChoices ==
    {{},
     {<<"learn", "mathematics">>, <<"master", "science">>},
     {<<"learn", "science">>, <<"learn", "art">>}}

PmAvailabilityChoices ==
    {<<>>,
     [monday |-> <<RangeSlot(9, 0, 11, 0)>>],
     [monday |-> <<RangeSlot(9, 0, 16, 0)>>],
     [monday |-> <<RangeSlot(12, 0, 13, 0), TokenSlot("evening")>>,
      saturday |-> <<RangeSlot(10, 0, 12, 0)>>]}

PmCommChoices ==
    {<<>>, <<"chat">>, <<"video_call", "chat", "email">>, <<"chat", "chat", "phone">>}

PmMaxMatchesChoices == {-1, 0, 3, 20}

PeerMatchingRequests ==
    [user_id : {"u1"},
     education_level : Range(education_levels),
     skill_levels : PmSkillChoices,
     learning_goals : PmGoalChoices,
     availability : PmAvailabilityChoices,
     communication_preferences : PmCommChoices,
     age_range : PmAgeRanges]

PmInit ==
    /\ pmPc = "start"
    /\ pmRequest \in PeerMatchingRequests
    /\ pmStrategy \in MatchingStrategies
    /\ pmMaxMatches \in PmMaxMatchesChoices
    /\ pmResult = <<>>
    /\ user_profiles = <<>>
    /\ PmOthersIdle

FindPeerMatchesCall ==
    /\ pmPc = "start"
    /\ pmResult' = FindPeerMatches(pmRequest, pmStrategy, pmMaxMatches, user_profiles)
    /\ pmPc' = "done"
    /\ UNCHANGED <<pmRequest, pmStrategy, pmMaxMatches, user_profiles, pmOthers>>

PmNext == FindPeerMatchesCall

SpecPeer == PmInit /\ [][PmNext]_vars

(***************************************************************************)
(* Properties of peer matching.                                            *)
(***************************************************************************)
\* the candidate profile a returned match was built from
CandidateTiers(request, match) ==
    {DetermineSafetyLevelFromProfile(CandidatePeer(request.user_id, i)) :
        i \in {j \in 0..(NumCandidates - 1) :
                  PeerId(request.user_id, j) = match.user_id}}

\* C4: a requester in the HIGH tier never receives a match whose peer
\* resolves to MEDIUM or STANDARD, whether the peer is resolved through the
\* stored profiles (as the filter does) or through its candidate profile.
C4_HighRequesterNoLowerTierPeer ==
    (pmPc = "done" /\ DetermineSafetyLevel(pmRequest) = "high")
    => \A k \in 1..Len(pmResult) :
           /\ DetermineSafetyLevelFromProfile(
                  StoredProfile(user_profiles, pmResult[k].user_id))
                  \notin {"medium", "standard"}
           /\ CandidateTiers(pmRequest, pmResult[k]) \cap {"medium", "standard"} = {}

\* a HIGH-tier requester (age range "under 18", college education) was
\* served under the comprehensive strategy
C4_Witness ==
    /\ pmPc = "done"
    /\ pmRequest.age_range = "under 18"
    /\ pmRequest.education_level = "college"
    /\ pmStrategy = "comprehensive"
    /\ pmMaxMatches = 20
    /\ DetermineSafetyLevel(pmRequest) = "high"
    /\ \A k \in 1..Len(pmResult) :
           CandidateTiers(pmRequest, pmResult[k]) \subseteq {"high"}

\* C5: no returned match pairs the requester with a candidate whose tier,
\* derived from the candidate's age range and education level, is
\* incompatible with the requester's tier.
C5_NoIncompatibleCandidate ==
    pmPc = "done"
    => \A k \in 1..Len(pmResult) :
           \A tier \in CandidateTiers(pmRequest, pmResult[k]) :
               IsSafetyCompatible(DetermineSafetyLevel(pmRequest), tier)

\* C10: every compatibility_score of a returned match lies in [0,1].
C10_CompatibilityScoreInUnitInterval ==
    pmPc = "done"
    => \A k \in 1..Len(pmResult) : InUnitInterval(pmResult[k].compatibility_score)

NonIncreasingCompatibility(matches) ==
    \A k \in 1..(Len(matches) - 1) :
        RatLeq(matches[k + 1].compatibility_score, matches[k].compatibility_score)

MinClock == 66000000

MaxTicks == 1

RateOperations == {"learning_path", "recommendations", "embeddings"}

Limits ==
    [openai |-> [learning_path |-> 10, recommendations |-> 20, embeddings |-> 100],
     gemini |-> [learning_path |-> 15, recommendations |-> 30, embeddings |-> 60]]

\* now.minute
MinuteOf(now) == now % 60

\* datetime.strptime(k.split('_')[-1], "%M"): minute m of 1900-01-01 00:00
ParseMinute(key) == key[2]

NoKeys == [k \in {} |-> 0]

CheckRateLimits(operation) ==
    /\ rlAccepted[operation] <= Limits[rlProvider][operation]
    /\ LET key == <<operation, MinuteOf(rlNow)>>
           entered == [k \in DOMAIN rlTracker \cup {key} |->
                          IF k \in DOMAIN rlTracker THEN rlTracker[k] ELSE 0]
       IN  IF entered[key] >= Limits[rlProvider][operation]
           THEN /\ rlTracker' = entered
                /\ rlLast' = "RateLimitError"
                /\ UNCHANGED rlAccepted
           ELSE LET counted == [entered EXCEPT ![key] = @ + 1]
                    cutoff == rlNow - 2
                    keys_to_remove == {k \in DOMAIN counted : ParseMinute(k) < cutoff}
                IN  /\ rlTracker' = [k \in DOMAIN counted \ keys_to_remove |-> counted[k]]
                    /\ rlLast' = "accepted"
                    /\ rlAccepted' = [rlAccepted EXCEPT ![operation] = @ + 1]
    /\ UNCHANGED <<rlProvider, rlNow, rlOthers>>

\* the wall clock passes into the next minute
Tick ==
    /\ rlNow < MinClock + MaxTicks
    /\ rlNow' = rlNow + 1
    /\ rlAccepted' = [op \in RateOperations |-> 0]
    /\ rlLast' = "idle"
    /\ UNCHANGED <<rlProvider, rlTracker, rlOthers>>

RlInit ==
    /\ rlProvider \in {"openai", "gemini"}
    /\ rlNow = MinClock
    /\ rlTracker = NoKeys
    /\ rlAccepted = [op \in RateOperations |-> 0]
    /\ rlLast = "idle"
    /\ RlOthersIdle

RlNext ==
    \/ \E operation \in RateOperations : CheckRateLimits(operation)
    \/ Tick

SpecRate == RlInit /\ [][RlNext]_vars

\* C8: within one minute the calls a client's _check_rate_limits accepts
\* for an operation never exceed that operation's limit: once the limit is
\* reached every further call raises RateLimitError.
C8_AcceptedCallsWithinLimit ==
    \A operation \in RateOperations :
        rlAccepted[operation] <= Limits[rlProvider][operation]

(***************************************************************************)
(* Content recommendation engine.                                          *)
(* A ContentItem / ContentRecommendation keeps content_id, topics, format, *)
(* duration_minutes, source and the two scores; title, description, url    *)
(* and difficulty decide nothing and are left out.                         *)
(*                                                                         *)
(* Embeddings: _create_query_vector gives a vector of 128 equal positive   *)
(* entries, so its cosine with a content embedding depends on the content  *)
(* embedding alone.  The content embedding is built from Python's salted   *)
(* hash(), so it differs from process to process; it is cached per content *)
(* id.  An embedding is therefore kept as its cosine with the constant     *)
(* direction, chosen from EmbeddingCosines when first generated.  (The     *)
(* all-zero embedding, one outcome in 100^128, is not among the choices.)  *)
(***************************************************************************)
EmbeddingCosines == {Rat(1, 5), Rat(1, 1)}

\* str.lower() on the topics of the check
Lower(topic) ==
    CASE topic = "Science" -> "science"
      [] topic = "Gemini" -> "gemini"
      [] OTHER -> topic

topic_relationships ==
    [mathematics |-> <<"algebra", "geometry", "calculus", "statistics">>,
     programming |-> <<"algorithms", "data_structures", "software_engineering">>,
     science |-> <<"physics", "chemistry", "biology">>,
     history |-> <<"world_history", "american_history", "ancient_history">>,
     language |-> <<"grammar", "vocabulary", "writing", "literature">>]

\* `a in b` on strings, for the strings of the checks: none of the topics
\* ("art", "science") and none of the learning goals ("equations",
\* "world peace") is a substring of a table entry other than itself, nor
\* contains one
IsSubstring(a, b) == a = b

\* direct match; else the first key (in dict order) that matches partially
\* or lists the topic among its related topics; else []
GetRelatedTopics(topic) ==
    LET topic_lower == Lower(topic)
        keys == <<"mathematics", "programming", "science", "history", "language">>
        hit(k) == \/ IsSubstring(topic_lower, keys[k])
                  \/ IsSubstring(keys[k], topic_lower)
                  \/ topic_lower \in Range(topic_relationships[keys[k]])
        hits == {k \in 1..Len(keys) : hit(k)}
    IN  IF topic_lower \in DOMAIN topic_relationships
        THEN topic_relationships[topic_lower]
        ELSE IF hits = {} THEN <<>>
        ELSE LET k == CHOOSE h \in hits : \A g \in hits : h <= g
                 related == topic_relationships[keys[k]]
             IN  IF IsSubstring(topic_lower, keys[k]) \/ IsSubstring(keys[k], topic_lower)
                 THEN related
                 ELSE <<keys[k]>> \o SelectSeq(related, LAMBDA t : t # topic_lower)

\* f"content_{topic}_{i}_{j}"
ContentId(topic, i, j) ==
    "content_" \o topic \o "_" \o ToString(i) \o "_" \o ToString(j)

\* request.max_duration or 60
MaxDurationOr60(request) == IF request.max_duration = 0 THEN 60 ELSE request.max_duration

ContentItem(request, topic, i, j) ==
    [content_id |-> ContentId(topic, i, j),
     topics |-> <<topic>>,
     format |-> IF request.preferred_formats # <<>>
                THEN request.preferred_formats[(j % Len(request.preferred_formats)) + 1]
                ELSE "video",
     duration_minutes |-> Min(MaxDurationOr60(request), 30 + (j * 15)),
     source |-> "sample_content",
     verified |-> FALSE,
     expert_reviewed |-> FALSE]

\* 3 pieces of content for each of the first 5 topics, then the duration
\* and exclusion filters
GetCandidateContent(request) ==
    LET topics == Slice(<<Lower(request.current_topic)>>
                        \o GetRelatedTopics(request.current_topic), 0, 5)
        all == [n \in 1..(3 * Len(topics)) |->
                   ContentItem(request, topics[((n - 1) \div 3) + 1],
                               (n - 1) \div 3, (n - 1) % 3)]
        timed == IF request.max_duration # 0
                 THEN SelectSeq(all, LAMBDA c : c.duration_minutes <= request.max_duration)
                 ELSE all
    IN  IF request.exclude_content # {}
        THEN SelectSeq(timed, LAMBDA c : c.content_id \notin request.exclude_content)
        ELSE timed

\* norm 0 gives 0.0; otherwise (similarity + 1) / 2
CalculateCosineSimilarity(cosine) ==
    IF cosine = RatZero THEN RatZero
    ELSE RatMul(RatAdd(cosine, RatOne), Rat(1, 2))

\* f"similar_user_{user_id}_{i}" for 5 users if a profile is given, else
\* user_0, user_1, user_2
FindSimilarUsers(user_id, user_profile) ==
    IF user_profile.present
    THEN {"similar_user_" \o user_id \o "_" \o ToString(i) : i \in 0..4}
    ELSE {"user_" \o ToString(i) : i \in 0..2}

RatMax(x, y) == IF RatLeq(x, y) THEN y ELSE x

RatMin(x, y) == IF RatLeq(x, y) THEN x ELSE y

\* average of the similar users' scores for the content, clamped to [0,1];
\* 0.5 when no similar user has one
CalculateCollaborativeScore(content_id, similar_users, matrix) ==
    LET raters == {u \in similar_users \cap DOMAIN matrix : content_id \in DOMAIN matrix[u]}
        scores == [u \in raters |-> matrix[u][content_id]]
    IN  IF similar_users = {} \/ raters = {} THEN Rat(1, 2)
        ELSE RatMax(RatZero,
                    RatMin(RatOne,
                           RatMul(RatSumOver(raters, scores),
                                  Rat(1, Cardinality(raters)))))

learning_style_preferences ==
    [visual |-> [video |-> Rat(9, 10), interactive |-> Rat(8, 10),
                 article |-> Rat(6, 10), audio |-> Rat(3, 10), document |-> Rat(5, 10)],
     auditory |-> [audio |-> Rat(9, 10), video |-> Rat(7, 10),
                   interactive |-> Rat(5, 10), article |-> Rat(4, 10),
                   document |-> Rat(4, 10)],
     kinesthetic |-> [interactive |-> Rat(9, 10), video |-> Rat(6, 10),
                      audio |-> Rat(4, 10), article |-> Rat(3, 10),
                      document |-> Rat(3, 10)],
     reading |-> [article |-> Rat(9, 10), document |-> Rat(8, 10),
                  interactive |-> Rat(6, 10), video |-> Rat(5, 10),
                  audio |-> Rat(4, 10)]]

\* the profile's learning_preferences["learning_style"], "visual" when there
\* is no profile or no such preference
GetUserLearningStyle(user_profile) ==
    IF user_profile.present THEN user_profile.learning_style ELSE "visual"

\* style_preferences.get(format, 0.5), times 1.2 when the style's name is a
\* key of style_preferences (the keys are format names), capped at 1.0
CalculateLearningStyleScore(content, style_preferences) ==
    LET format_score == IF content.format \in DOMAIN style_preferences
                        THEN style_preferences[content.format] ELSE Rat(1, 2)
        boosted ==
            IF \/ content.format = "video" /\ "visual" \in DOMAIN style_preferences
               \/ content.format = "audio" /\ "auditory" \in DOMAIN style_preferences
               \/ content.format = "interactive" /\ "kinesthetic" \in DOMAIN style_preferences
               \/ content.format = "article" /\ "reading" \in DOMAIN style_preferences
            THEN RatMul(format_score, Rat(12, 10))
            ELSE format_score
    IN  RatMin(RatOne, boosted)

\* 1.0 - index * 0.1 for a preferred format, 0.3 otherwise, 0.5 without
\* preferences
CalculateFormatPreferenceScore(content_format, preferred_formats) ==
    IF preferred_formats = <<>> THEN Rat(1, 2)
    ELSE IF content_format \in Range(preferred_formats)
    THEN LET index == (CHOOSE k \in 1..Len(preferred_formats) :
                          /\ preferred_formats[k] = content_format
                          /\ \A j \in 1..(k - 1) : preferred_formats[j] # content_format) - 1
         IN  RatAdd(RatOne, Rat(-index, 10))
    ELSE Rat(3, 10)

source_scores ==
    [khan_academy |-> Rat(9, 10), coursera |-> Rat(85, 100),
     youtube |-> Rat(7, 10), sample_content |-> Rat(6, 10)]

CalculateQualityScore(content) ==
    LET base == IF content.source \in DOMAIN source_scores
                THEN source_scores[content.source] ELSE Rat(1, 2)
        verified == IF content.verified THEN RatAdd(base, Rat(1, 10)) ELSE base
        reviewed == IF content.expert_reviewed THEN RatAdd(verified, Rat(1, 10))
                    ELSE verified
    IN  RatMin(RatOne, reviewed)

ContentRecommendation(content, relevance_score) ==
    [content_id |-> content.content_id,
     topics |-> content.topics,
     format |-> content.format,
     duration_minutes |-> content.duration_minutes,
     source |-> content.source,
     relevance_score |-> relevance_score,
     quality_score |-> CalculateQualityScore(content)]

\* where list.sort puts `rec` among the already sorted `front`: after every
\* element whose relevance is not smaller
InsertByRelevance(front, rec) ==
    LET before == SelectSeq(front, LAMBDA r : RatLeq(rec.relevance_score,
                                                     r.relevance_score))
    IN  before \o <<rec>> \o SubSeq(front, Len(before) + 1, Len(front))

RECURSIVE SortByRelevanceDescending(_)
\* list.sort(key=relevance_score, reverse=True): stable
SortByRelevanceDescending(recs) ==
    IF recs = <<>> THEN <<>>
    ELSE InsertByRelevance(SortByRelevanceDescending(SubSeq(recs, 1, Len(recs) - 1)),
                           recs[Len(recs)])

VectorSimilarityRecommendations(candidate_content, embeddings) ==
    SortByRelevanceDescending(
        [n \in 1..Len(candidate_content) |->
            ContentRecommendation(candidate_content[n],
                CalculateCosineSimilarity(embeddings[candidate_content[n].content_id]))])

\* relevance = cf_score * 0.7 + peer_success_rates.get(content_id, 0.5) * 0.3
CollaborativeFilteringRecommendations(request, candidate_content, user_profile, matrix, rates) ==
    LET similar_users == FindSimilarUsers(request.user_id, user_profile)
    IN  SortByRelevanceDescending(
            [n \in 1..Len(candidate_content) |->
                LET content == candidate_content[n]
                    cf_score == CalculateCollaborativeScore(content.content_id,
                                                            similar_users, matrix)
                    peer_success_rate == IF content.content_id \in DOMAIN rates
                                         THEN rates[content.content_id] ELSE Rat(1, 2)
                IN  ContentRecommendation(content,
                        RatAdd(RatMul(cf_score, Rat(7, 10)),
                               RatMul(peer_success_rate, Rat(3, 10))))])

\* relevance = style_score * 0.6 + format_score * 0.4
\* a learning_style preference that is a list cannot be a dict key:
\* learning_style_preferences.get raises TypeError and the handler of
\* _learning_style_recommendations returns []
LearningStyleRecommendations(request, candidate_content, user_profile) ==
    LET learning_style == GetUserLearningStyle(user_profile)
        style_preferences == IF learning_style \in DOMAIN learning_style_preferences
                             THEN learning_style_preferences[learning_style]
                             ELSE <<>>
    IN  IF learning_style = "['visual', 'auditory']" THEN <<>>
        ELSE
        SortByRelevanceDescending(
            [n \in 1..Len(candidate_content) |->
                LET content == candidate_content[n]
                IN  ContentRecommendation(content,
                        RatAdd(RatMul(CalculateLearningStyleScore(content,
                                                                  style_preferences),
                                      Rat(6, 10)),
                               RatMul(CalculateFormatPreferenceScore(
                                          content.format, request.preferred_formats),
                                      Rat(4, 10))))])

\* a, then the elements of b that are not in a
AppendNew(a, b) == a \o SelectSeq(b, LAMBDA x : x \notin Range(a))

ContentIds(recs) == [n \in 1..Len(recs) |-> recs[n].content_id]

\* what one strategy's list adds to combined_scores[content_id]
WeightedRelevance(recs, content_id, weight) ==
    LET hits == {n \in 1..Len(recs) : recs[n].content_id = content_id}
        score == [n \in hits |-> RatMul(recs[n].relevance_score, weight)]
    IN  RatSumOver(hits, score)

\* the merge of the three lists: 0.4 * vector + 0.35 * collaborative
\* + 0.25 * learning style per content id, in the insertion order of
\* combined_scores
CombineStrategies(candidate_content, vector_recs, collab_recs, style_recs) ==
    LET ids == AppendNew(AppendNew(ContentIds(vector_recs), ContentIds(collab_recs)),
                         ContentIds(style_recs))
        \* content_map: the last candidate with that id
        content_of(id) ==
            candidate_content[CHOOSE n \in 1..Len(candidate_content) :
                /\ candidate_content[n].content_id = id
                /\ \A m \in (n + 1)..Len(candidate_content) :
                       candidate_content[m].content_id # id]
    IN  SortByRelevanceDescending(
            [n \in 1..Len(ids) |->
                ContentRecommendation(content_of(ids[n]),
                    RatAdd(RatAdd(WeightedRelevance(vector_recs, ids[n], Rat(40, 100)),
                                  WeightedRelevance(collab_recs, ids[n], Rat(35, 100))),
                           WeightedRelevance(style_recs, ids[n], Rat(25, 100))))])

HybridRecommendations(request, candidate_content, user_profile, embeddings, matrix, rates) ==
    CombineStrategies(
        candidate_content,
        VectorSimilarityRecommendations(candidate_content, embeddings),
        CollaborativeFilteringRecommendations(request, candidate_content,
                                              user_profile, matrix, rates),
        LearningStyleRecommendations(request, candidate_content, user_profile))

\* K-12 requesters only get content of quality >= 0.6
IsAgeAppropriate(recommendation, education_level) ==
    IF education_level = "k12" THEN RatLeq(Rat(6, 10), recommendation.quality_score)
    ELSE TRUE

\* lists of more than 5 are thinned: after the first 3, a recommendation is
\* kept only if it repeats fewer than 2 used topics and its format is new;
\* the loop stops at 10 kept
ApplyDiversityFilter(recommendations) ==
    LET F[n \in 0..Len(recommendations)] ==
            IF n = 0 THEN [diverse_recs |-> <<>>, used_topics |-> {}, used_formats |-> {}]
            ELSE LET prev == F[n - 1]
                     rec == recommendations[n]
                     topic_overlap == Cardinality(Range(rec.topics) \cap prev.used_topics)
                     format_used == rec.format \in prev.used_formats
                 IN  IF Len(prev.diverse_recs) >= 10 THEN prev
                     ELSE IF Len(prev.diverse_recs) < 3
                             \/ (topic_overlap < 2 /\ ~format_used)
                     THEN [diverse_recs |-> Append(prev.diverse_recs, rec),
                           used_topics |-> prev.used_topics \cup Range(rec.topics),
                           used_formats |-> prev.used_formats \cup {rec.format}]
                     ELSE prev
    IN  IF Len(recommendations) <= 5 THEN recommendations
        ELSE F[Len(recommendations)].diverse_recs

\* rec.relevance_score = rec.relevance_score * 0.7 + rec.quality_score * 0.3
FinalRanking(diverse_recs) ==
    [n \in 1..Len(diverse_recs) |->
        [diverse_recs[n] EXCEPT !.relevance_score =
            RatAdd(RatMul(@, Rat(7, 10)),
                   RatMul(diverse_recs[n].quality_score, Rat(3, 10)))]]

\* thresholds, diversity, final ranking, sort
ApplyFinalFilters(recommendations, request) ==
    SortByRelevanceDescending(FinalRanking(ApplyDiversityFilter(
        SelectSeq(recommendations,
                  LAMBDA rec : /\ IsAgeAppropriate(rec, request.education_level)
                               /\ ~RatLess(rec.quality_score, Rat(3, 10))
                               /\ ~RatLess(rec.relevance_score, Rat(2, 10))))))

\* 5 canned recommendations built from the topic string
GetFallbackRecommendations(request) ==
    [n \in 1..5 |->
        [content_id |-> "fallback_" \o request.current_topic \o "_" \o ToString(n - 1),
         topics |-> <<Lower(request.current_topic)>>,
         format |-> IF request.preferred_formats # <<>>
                    THEN request.preferred_formats[1] ELSE "video",
         duration_minutes |-> Min(MaxDurationOr60(request), 30),
         source |-> "fallback",
         relevance_score |-> Rat(1, 2),
         quality_score |-> Rat(6, 10)]]

GetPersonalizedRecommendations(request, user_profile, strategy, max_recommendations, embeddings, matrix, rates) ==
    LET candidate_content == GetCandidateContent(request)
        recommendations ==
            CASE strategy = "vector_similarity" ->
                     VectorSimilarityRecommendations(candidate_content, embeddings)
              [] strategy = "collaborative_filtering" ->
                     CollaborativeFilteringRecommendations(
                         request, candidate_content, user_profile, matrix, rates)
              [] strategy = "learning_style_based" ->
                     LearningStyleRecommendations(request, candidate_content,
                                                  user_profile)
              [] OTHER ->
                     HybridRecommendations(request, candidate_content, user_profile,
                                           embeddings, matrix, rates)
    IN  IF candidate_content = <<>> THEN GetFallbackRecommendations(request)
        ELSE Truncate(ApplyFinalFilters(recommendations, request), max_recommendations)

(***************************************************************************)
(* Requests and updates of the recommendation check.                       *)
(***************************************************************************)
MaxUpdates == 1

RecommendationStrategies ==
    {"vector_similarity", "collaborative_filtering", "learning_style_based", "hybrid"}

\* topic with the content ids the request excludes
RecTopicChoices ==
    {<<"art", {}>>,
     <<"art", {ContentId("art", 0, 1), ContentId("art", 0, 2)}>>,
     <<"art", {ContentId("art", 0, j) : j \in 0..2}>>,
     <<"Science", {ContentId(t[1], t[2], j) :
                      t \in {<<"chemistry", 2>>, <<"biology", 3>>}, j \in 0..2}>>}

ContentRecommendationRequests ==
    {[user_id |-> "u1",
      current_topic |-> tc[1],
      education_level |-> e,
      preferred_formats |-> f,
      max_duration |-> 60,
      exclude_content |-> tc[2]] :
        tc \in RecTopicChoices, e \in {"k12", "college"},
        f \in {<<>>, <<"article", "video">>}}

\* user_profile: None, or a profile with a learning style; learning_preferences
\* is a Dict[str, Any], and "['visual', 'auditory']" stands for the list
UserProfileChoices ==
    {[present |-> FALSE, learning_style |-> "visual"],
     [present |-> TRUE, learning_style |-> "auditory"],
     [present |-> TRUE, learning_style |-> "['visual', 'auditory']"]}

RecMaxChoices == {3, 10}

RecUpdateUsers == {"user_0", "similar_user_u1_0"}

\* the updates are about the first piece of content of the request's topic
RecUpdateContents == {ContentId(Lower(recRequest.current_topic), 0, 0)}

\* interaction_score / success_rate: floats the routes do not validate
ScoreChoices == {Rat(0, 1), Rat(3, 1)}

RecInit ==
    /\ recPc = "start"
    /\ recRequest \in ContentRecommendationRequests
    /\ recProfile \in UserProfileChoices
    /\ recStrategy \in RecommendationStrategies
    /\ recMaxN \in RecMaxChoices
    /\ recResult = <<>>
    /\ recUpdates = 0
    /\ RecStoresInitial
    /\ RecOthersIdle

\* self.user_interaction_matrix[user_id][content_id] = interaction_score
UpdateUserInteraction(user_id, content_id, interaction_score) ==
    /\ recPc = "start"
    /\ recUpdates < MaxUpdates
    /\ recUpdates' = recUpdates + 1
    /\ user_interaction_matrix' =
           [u \in DOMAIN user_interaction_matrix \cup {user_id} |->
               LET row == IF u \in DOMAIN user_interaction_matrix
                          THEN user_interaction_matrix[u] ELSE <<>>
               IN  IF u = user_id
                   THEN [c \in DOMAIN row \cup {content_id} |->
                            IF c = content_id THEN interaction_score ELSE row[c]]
                   ELSE row]
    /\ UNCHANGED <<recPc, recRequest, recProfile, recStrategy, recMaxN, recResult,
                   content_embeddings, peer_success_rates, recOthers>>

\* self.peer_success_rates[content_id] = success_rate
UpdatePeerSuccessRate(content_id, success_rate) ==
    /\ recPc = "start"
    /\ recUpdates < MaxUpdates
    /\ recUpdates' = recUpdates + 1
    /\ peer_success_rates' =
           [c \in DOMAIN peer_success_rates \cup {content_id} |->
               IF c = content_id THEN success_rate ELSE peer_success_rates[c]]
    /\ UNCHANGED <<recPc, recRequest, recProfile, recStrategy, recMaxN, recResult,
                   content_embeddings, user_interaction_matrix, recOthers>>

\* one call of get_personalized_recommendations; the vector-similarity part
\* generates and caches an embedding for every candidate not cached yet
GetPersonalizedRecommendationsCall ==
    /\ recPc = "start"
    /\ LET candidate_ids == Range(ContentIds(GetCandidateContent(recRequest)))
           generated == IF recStrategy \in {"vector_similarity", "hybrid"}
                        THEN candidate_ids \ DOMAIN content_embeddings
                        ELSE {}
       IN  \E fresh \in [generated -> EmbeddingCosines] :
               /\ content_embeddings' =
                      [c \in DOMAIN content_embeddings \cup generated |->
                          IF c \in generated THEN fresh[c] ELSE content_embeddings[c]]
               /\ recResult' = GetPersonalizedRecommendations(
                                   recRequest, recProfile, recStrategy, recMaxN,
                                   content_embeddings', user_interaction_matrix,
                                   peer_success_rates)
    /\ recPc' = "done"
    /\ UNCHANGED <<recRequest, recProfile, recStrategy, recMaxN, recUpdates,
                   user_interaction_matrix, peer_success_rates, recOthers>>

RecNext ==
    \/ \E u \in RecUpdateUsers, c \in RecUpdateContents, x \in ScoreChoices :
           UpdateUserInteraction(u, c, x)
    \/ \E c \in RecUpdateContents, x \in ScoreChoices : UpdatePeerSuccessRate(c, x)
    \/ GetPersonalizedRecommendationsCall

SpecRec == RecInit /\ [][RecNext]_vars

(***************************************************************************)
(* Properties of the recommendation engine.                                *)
(***************************************************************************)
\* C9: after any sequence of update_user_interaction and
\* update_peer_success_rate calls, every relevance_score and quality_score
\* of a returned recommendation lies in [0,1].
C9_ScoresInUnitInterval ==
    recPc = "done"
    => \A n \in 1..Len(recResult) :
           /\ InUnitInterval(recResult[n].relevance_score)
           /\ InUnitInterval(recResult[n].quality_score)

NonIncreasingRelevance(recs) ==
    \A n \in 1..(Len(recs) - 1) :
        RatLeq(recs[n + 1].relevance_score, recs[n].relevance_score)

\* the strategy scoring of the call failed: the learning-style scoring raised
\* on the profile's learning_style
ScoringFailed ==
    /\ recPc = "done"
    /\ GetCandidateContent(recRequest) # <<>>
    /\ recStrategy \in {"learning_style_based", "hybrid"}
    /\ GetUserLearningStyle(recProfile) = "['visual', 'auditory']"

\* C17: get_personalized_recommendations does not raise, and whenever an
\* internal step fails the caller receives the canned fallback
\* recommendations built from the topic string.
C17_FallbackAfterInternalFailure ==
    ScoringFailed => recResult = GetFallbackRecommendations(recRequest)

\* C13: for every request, strategy and max_n the list returned by
\* get_personalized_recommendations is in non-increasing order of final
\* score and has at most max_n items, the fallback path included.
C13_SortedAndAtMostMaxN ==
    recPc = "done"
    => /\ NonIncreasingRelevance(recResult)
       /\ Len(recResult) <= recMaxN

(***************************************************************************)
(* The diversity filter on its own: _apply_diversity_filter applied to a   *)
(* list of ten recommendations of which seven have one topic and three     *)
(* another.  recRequest holds the list and recResult what is returned.     *)
(***************************************************************************)
\* ten recommendations, content_0 .. content_9, those at three positions on
\* geometry and the seven others on algebra; the formats are all video, or
\* alternate video and article (test_diversity_filtering), or cycle through
\* the five of ContentFormat.  Of the fields of ContentRecommendation the
\* filter reads topics and format
DiversityCandidates ==
    LET formats == <<"video", "article", "interactive", "audio", "document">>
    IN  {[i \in 1..10 |->
            [content_id |-> "content_" \o ToString(i - 1),
             format |-> formats[((i - 1) % cycle) + 1],
             topics |-> IF i \in minority THEN <<"geometry">> ELSE <<"algebra">>]] :
         minority \in {m \in SUBSET (1..10) : Cardinality(m) = 3},
         cycle \in {1, 2, 5}}

DivInit ==
    /\ recPc = "start"
    /\ recRequest \in DiversityCandidates
    /\ recProfile = <<>>
    /\ recStrategy = "hybrid"
    /\ recMaxN = 10
    /\ recResult = <<>>
    /\ recUpdates = 0
    /\ RecStoresInitial
    /\ RecOthersIdle

ApplyDiversityFilterCall ==
    /\ recPc = "start"
    /\ recResult' = ApplyDiversityFilter(recRequest)
    /\ recPc' = "done"
    /\ UNCHANGED <<recRequest, recProfile, recStrategy, recMaxN, recUpdates,
                   recStores, recOthers>>

DivNext == ApplyDiversityFilterCall

SpecDiversity == DivInit /\ [][DivNext]_vars

\* C19: of ten candidates of which seven share one topic and three share
\* another the diversity filter returns recommendations on at least two
\* distinct topics.
C19_DiverseResultHasTwoTopics ==
    LET topics == UNION {Range(recResult[n].topics) : n \in 1..Len(recResult)}
    IN  recPc = "done" => Cardinality(topics) >= 2

(***************************************************************************)
(* Learning-path algorithm: generate_personalized_path.                    *)
(* Of an objective's keys the documentation ones ('description',           *)
(* 'category') are left out.                                               *)
(***************************************************************************)
\* _load_subject_taxonomies: subject -> level -> categories, in dict order
subject_taxonomies ==
    [mathematics |->
        [k12 |-> <<[category |-> "arithmetic",
                    topics |-> <<"addition", "subtraction", "multiplication", "division">>],
                   [category |-> "algebra",
                    topics |-> <<"variables", "equations", "functions", "graphing">>],
                   [category |-> "geometry",
                    topics |-> <<"shapes", "area", "volume", "proofs">>],
                   [category |-> "statistics",
                    topics |-> <<"data_analysis", "probability", "distributions">>]>>,
         college |-> <<[category |-> "calculus",
                        topics |-> <<"limits", "derivatives", "integrals", "series">>],
                       [category |-> "linear_algebra",
                        topics |-> <<"vectors", "matrices", "eigenvalues", "transformations">>],
                       [category |-> "discrete_math",
                        topics |-> <<"logic", "sets", "combinatorics", "graph_theory">>]>>],
     computer_science |->
        [k12 |-> <<[category |-> "programming_basics",
                    topics |-> <<"variables", "loops", "conditionals", "functions">>],
                   [category |-> "problem_solving",
                    topics |-> <<"algorithms", "debugging", "testing", "documentation">>]>>,
         college |-> <<[category |-> "data_structures",
                        topics |-> <<"arrays", "lists", "trees", "graphs", "hash_tables">>],
                       [category |-> "algorithms",
                        topics |-> <<"sorting", "searching", "dynamic_programming", "greedy">>],
                       [category |-> "software_engineering",
                        topics |-> <<"design_patterns", "testing", "version_control">>]>>]]

\* every topic of a category one of whose topics matches the goal; the
\* topics of the taxonomy are lower case without spaces, so
\* topic.lower().replace(" ", "_") leaves them as Lower does
FindMatchingObjectives(goal, level_content) ==
    Flatten([c \in 1..Len(level_content) |->
        LET topics == level_content[c].topics
        IN  IF \E n \in 1..Len(topics) :
                   \/ IsSubstring(Lower(topics[n]), Lower(goal))
                   \/ IsSubstring(Lower(goal), Lower(topics[n]))
            THEN [n \in 1..Len(topics) |->
                     [id |-> "obj_" \o level_content[c].category \o "_" \o topics[n],
                      difficulty |-> "beginner",
                      topics |-> <<topics[n]>>,
                      skills_gained |-> <<Lower(topics[n])>>]]
            ELSE <<>>])

GetDefaultObjectives(subject) ==
    <<[id |-> "default_obj_1_" \o subject,
       difficulty |-> "beginner",
       estimated_hours |-> 4,
       skills_gained |-> <<subject \o "_fundamentals">>],
      [id |-> "default_obj_2_" \o subject,
       difficulty |-> "intermediate",
       estimated_hours |-> 6,
       prerequisites |-> {"default_obj_1_" \o subject},
       skills_gained |-> <<subject \o "_intermediate">>]>>

\* subject_taxonomies.get(subject, {}).get(education_level, {}); the matches
\* of every goal in turn, or the two default objectives when there is none
MapGoalsToObjectives(learning_goals, subject, education_level) ==
    LET taxonomy == Get(subject_taxonomies, subject, <<>>)
        level_content == Get(taxonomy, education_level, <<>>)
        objectives == Flatten([g \in 1..Len(learning_goals) |->
                          FindMatchingObjectives(learning_goals[g], level_content)])
    IN  IF objectives = <<>> THEN GetDefaultObjectives(subject) ELSE objectives

\* _assess_current_skills: of the last ten interactions, those of the
\* subject give their topics as knowledge gaps (success rate under 0.7) or
\* as strengths (over 0.9); success rates are written in hundredths.
\* list(set(...)) lists the distinct topics in the order of the string
\* hashes of the interpreter process: hash_order lists the topics in that
\* order
AssessCurrentSkills(user_profile, subject, hash_order) ==
    LET history == user_profile.interaction_history
        last_ten == SubSeq(history, Max(1, Len(history) - 9), Len(history))
        TopicsWhere(Rated(_)) ==
            Flatten([n \in 1..Len(last_ten) |->
                IF /\ Get(last_ten[n], "subject", "") = subject
                   /\ Rated(Get(last_ten[n], "success_rate", 0))
                THEN Get(last_ten[n], "topics", <<>>)
                ELSE <<>>])
        ListOfSet(topics) == SelectSeq(hash_order, LAMBDA t : t \in Range(topics))
    IN  [knowledge_gaps |-> ListOfSet(TopicsWhere(LAMBDA rate : rate < 70)),
         strengths |-> ListOfSet(TopicsWhere(LAMBDA rate : rate > 90))]

\* _sequence_objectives: the objectives none of whose topics is a strength,
\* after one remedial objective (_create_remedial_objectives) per knowledge
\* gap, sequenced by prerequisites
SequenceObjectives(objectives, skill_assessment) ==
    LET strengths == skill_assessment.strengths
        filtered_objectives ==
            SelectSeq(objectives, LAMBDA obj :
                ~\E strength \in Range(strengths) :
                     strength \in Range(Get(obj, "topics", <<>>)))
        knowledge_gaps == skill_assessment.knowledge_gaps
        remedial_objectives ==
            [i \in 1..Len(knowledge_gaps) |->
                [id |-> "remedial_obj_" \o ToString(i),
                 title |-> "Review " \o knowledge_gaps[i],
                 difficulty |-> "beginner",
                 estimated_hours |-> 2,
                 remedial |-> TRUE,
                 topics |-> <<knowledge_gaps[i]>>,
                 skills_gained |-> <<Lower(knowledge_gaps[i])>>]]
    IN  SequenceWithPrerequisites(remedial_objectives \o filtered_objectives, {})

\* the formats of the style (reading/writing for any other style) that are
\* among the preferred formats, if there are preferred formats
AdaptForLearningStyle(objectives, learning_style, preferred_formats) ==
    LET style_formats ==
            Get([visual |-> <<"video", "infographic", "diagram">>,
                 auditory |-> <<"audio", "podcast", "lecture">>,
                 kinesthetic |-> <<"interactive", "simulation", "hands_on">>],
                learning_style, <<"article", "document", "text">>)
        recommended == IF preferred_formats # <<>>
                       THEN SelectSeq(style_formats,
                                      LAMBDA fmt : fmt \in Range(preferred_formats))
                       ELSE style_formats
    IN  [n \in 1..Len(objectives) |->
            [recommended_formats |-> recommended] @@ objectives[n]]

\* estimated_hours = int(base_hours * (len(skills_gained) * 0.5 + 1)),
\* estimated_weeks = max(1, estimated_hours // time_commitment)
CalculateTimeEstimates(objectives, time_commitment) ==
    [n \in 1..Len(objectives) |->
        LET obj == objectives[n]
            base_hours == Get([beginner |-> 2, intermediate |-> 3, advanced |-> 4],
                              Get(obj, "difficulty", "beginner"), 2)
            estimated_hours ==
                (base_hours * (Len(Get(obj, "skills_gained", <<>>)) + 2)) \div 2
        IN  [estimated_hours |-> estimated_hours,
             estimated_weeks |-> Max(1, estimated_hours \div time_commitment)]
            @@ obj]

RECURSIVE SumHours(_)
\* sum(obj.get('estimated_hours', 2) for obj in objectives)
SumHours(objectives) ==
    IF objectives = <<>> THEN 0
    ELSE Get(Head(objectives), "estimated_hours", 2) + SumHours(Tail(objectives))

\* _create_milestones: one milestone for objectives[i:i+3], i = 0, 3, 6, ...;
\* of the keys of a milestone, 'title', 'description' and
\* 'completion_criteria' are left out
CreateMilestones(objectives) ==
    [m \in 1..((Len(objectives) + 2) \div 3) |->
        LET milestone_objectives == Slice(objectives, 3 * (m - 1), 3 * m)
        IN  [id |-> "milestone_" \o ToString(m),
             objectives |-> [j \in 1..Len(milestone_objectives) |->
                                Get(milestone_objectives[j], "id",
                                    "obj_" \o ToString(j - 1))],
             estimated_completion |-> SumHours(milestone_objectives)]]

\* generate_personalized_path at the time now (in seconds) in a process
\* whose string hashes order the topics as hash_order.  The division by a
\* time_commitment of 0 in _calculate_time_estimates is raised again as
\* AIServiceError.  Of the keys of the path, 'difficulty_progression' and
\* 'adaptation_strategy' are left out
GeneratePersonalizedPath(user_profile, subject, learning_goals, time_commitment, now, hash_order) ==
    LET skill_assessment == AssessCurrentSkills(user_profile, subject, hash_order)
        mapped_objectives == MapGoalsToObjectives(learning_goals, subject,
                                                  user_profile.education_level)
        sequenced_objectives == SequenceObjectives(mapped_objectives, skill_assessment)
        adapted_objectives ==
            AdaptForLearningStyle(sequenced_objectives,
                Get(user_profile.learning_preferences, "learning_style", "visual"),
                Get(user_profile.learning_preferences, "preferred_formats",
                    <<"video", "interactive">>))
        timed_path == CalculateTimeEstimates(adapted_objectives, time_commitment)
    IN  IF time_commitment = 0
        THEN [raised |-> TRUE, error |-> "AIServiceError"]
        ELSE [raised |-> FALSE,
              value |-> [path_id |-> "path_" \o user_profile.user_id \o "_"
                                     \o subject \o "_" \o ToString(now),
                         user_id |-> user_profile.user_id,
                         subject |-> subject,
                         objectives |-> timed_path,
                         total_estimated_hours |-> SumHours(timed_path),
                         milestones |-> CreateMilestones(timed_path),
                         created_at |-> now,
                         source |-> "algorithm_generated"]]

(***************************************************************************)
(* Unified AI orchestrator (AIService).                                    *)
(* The two provider clients are collaborators: a call of a client raises   *)
(* or returns a parsed result.  orchStubs names, per client, which of the  *)
(* two it does.  A Python str held in a list of dicts is written           *)
(* [str |-> s].                                                            *)
(***************************************************************************)
\* class AIProvider
Providers == {"openai", "gemini"}

\* fallback_provider = GEMINI if active_provider == OPENAI else OPENAI
FallbackProviderSame(active_provider) == active_provider

FallbackProvider(active_provider) ==
    IF active_provider = "openai" THEN "gemini" ELSE "openai"

\* what a client's generate_learning_path returns: the parsed JSON object
\* of the completion
ProviderPath(behaviour) ==
    CASE behaviour = "strings" ->
             [objectives |-> <<[str |-> "Learn the fundamentals"],
                               [str |-> "Practice the skills"]>>,
              timeline |-> "8-12 weeks"]
      [] behaviour = "dicts" ->
             [objectives |-> <<[id |-> "B", prerequisites |-> {"A"}],
                               [id |-> "A", title |-> "Start here"]>>,
              timeline |-> "4-6 weeks"]
      [] OTHER -> [timeline |-> "4 weeks"]

\* what a client's get_content_recommendations returns: the parsed JSON
\* array of the completion; OpenAIService hands the array on as parsed, so
\* its elements need not be objects
ProviderRecommendations(behaviour, topic) ==
    CASE behaviour = "two" ->
             <<[title |-> "Introduction to " \o topic, source |-> "fallback"],
               [title |-> topic \o " Practice Exercises", source |-> "fallback"]>>
      [] behaviour = "seven" ->
             [n \in 1..7 |-> [title |-> "Resource " \o ToString(n),
                              content_id |-> ContentId(Lower(topic), 0, n - 1)]]
      [] behaviour = "malformed" -> <<[str |-> "Khan Academy"]>>
      [] OTHER -> <<>>

IsStr(item) == DOMAIN item = {"str"}

\* _standardize_objectives; of the keys it gives a str objective,
\* 'description' and 'skills_gained' are left out
StandardizeObjectives(objectives) ==
    [i \in 1..Len(objectives) |->
        LET obj == objectives[i]
        IN  IF IsStr(obj)
            THEN [id |-> "obj_" \o ToString(i),
                  title |-> obj.str,
                  difficulty |-> "beginner",
                  estimated_hours |-> 2]
            ELSE obj @@ [id |-> "obj_" \o ToString(i),
                         title |-> "Learning Objective " \o ToString(i),
                         difficulty |-> "beginner"]]

\* _get_ai_enhanced_path.  A provider name that is not an AIProvider makes
\* AIProvider(...) raise inside the try, and the handler's first statement
\* reads active_provider, which is unbound then: that error leaves the
\* function.  outcome: "raised", "none" (return None) or "result".
GetAiEnhancedPath(provider, stubs) ==
    LET active_provider == IF provider # "" THEN Lower(provider)
                           ELSE current_provider
        fallback_provider == FallbackProvider(active_provider)
        first == <<[provider |-> active_provider,
                    behaviour |-> stubs[active_provider]]>>
        both == Append(first, [provider |-> fallback_provider,
                               behaviour |-> stubs[fallback_provider]])
    IN  IF active_provider \notin Providers
        THEN [outcome |-> "raised", calls |-> <<>>]
        ELSE IF stubs[active_provider] # "raise"
        THEN [outcome |-> "result", calls |-> first,
              result |-> [ai_provider |-> active_provider]
                         @@ ProviderPath(stubs[active_provider])]
        ELSE IF ~enable_fallbacks
        THEN [outcome |-> "none", calls |-> first]
        ELSE IF stubs[fallback_provider] # "raise"
        THEN [outcome |-> "result", calls |-> both,
              result |-> [ai_provider |-> fallback_provider, fallback_used |-> TRUE]
                         @@ ProviderPath(stubs[fallback_provider])]
        ELSE [outcome |-> "none", calls |-> both]

\* _enhance_path_with_algorithms: the AI result with its objectives
\* standardized and sequenced
EnhancePathWithAlgorithms(ai_result) ==
    LET ai_objectives == Get(ai_result, "objectives", <<>>)
        sequenced_objectives ==
            SequenceWithPrerequisites(StandardizeObjectives(ai_objectives), {})
    IN  [objectives |-> sequenced_objectives,
         enhancement_applied |-> TRUE,
         original_ai_objectives_count |-> Len(ai_objectives),
         enhanced_objectives_count |-> Len(sequenced_objectives)]
        @@ ai_result

\* generate_algorithmic_learning_path: for a validated request
\* (1 <= time_commitment <= 40) generate_personalized_path does not raise.
\* user_profile is the one _convert_request_to_profile builds, without
\* interaction history, so that no string hash is consulted; the
\* orchestrator has no clock and reads the time 0
GenerateAlgorithmicLearningPath(request) ==
    LET user_profile ==
            [user_id |-> request.user_id,
             education_level |-> request.education_level,
             learning_preferences |->
                 [learning_style |-> request.learning_style,
                  preferred_formats |-> <<"video", "interactive", "article">>],
             interaction_history |-> <<>>]
    IN  [ai_provider |-> "algorithmic", generation_method |-> "pure_algorithm"]
        @@ GeneratePersonalizedPath(user_profile, request.subject,
               request.learning_goals, request.time_commitment, 0, <<>>).value

\* generate_learning_path: what it returns or that it raises, with the
\* provider invocations it made
GenerateLearningPath(request, provider, stubs) ==
    LET ai == GetAiEnhancedPath(provider, stubs)
    IN  IF ai.outcome = "raised"
        THEN IF enable_fallbacks
             THEN [raised |-> FALSE, calls |-> ai.calls,
                   value |-> GenerateAlgorithmicLearningPath(request)]
             ELSE [raised |-> TRUE, calls |-> ai.calls, error |-> "AIServiceError"]
        ELSE IF ai.outcome = "result" /\ ~Get(ai.result, "fallback_used", FALSE)
        THEN [raised |-> FALSE, calls |-> ai.calls,
              value |-> EnhancePathWithAlgorithms(ai.result)]
        ELSE [raised |-> FALSE, calls |-> ai.calls,
              value |-> GenerateAlgorithmicLearningPath(request)]

\* every element can take item["ai_provider"] = ...: none is a str
Taggable(result) == \A n \in 1..Len(result) : ~IsStr(result[n])

\* _get_ai_content_recommendations: as _get_ai_enhanced_path, with the
\* provider tag put on every element inside the try, so that a result with
\* an element that is no dict counts as a failure of that provider
GetAiContentRecommendations(request, provider, stubs) ==
    LET active_provider == IF provider # "" THEN Lower(provider)
                           ELSE current_provider
        fallback_provider == FallbackProvider(active_provider)
        first == <<[provider |-> active_provider,
                    behaviour |-> stubs[active_provider]]>>
        both == Append(first, [provider |-> fallback_provider,
                               behaviour |-> stubs[fallback_provider]])
        first_result == ProviderRecommendations(stubs[active_provider],
                                                request.current_topic)
        fallback_result == ProviderRecommendations(stubs[fallback_provider],
                                                   request.current_topic)
    IN  IF active_provider \notin Providers
        THEN [outcome |-> "raised", calls |-> <<>>]
        ELSE IF stubs[active_provider] # "raise" /\ Taggable(first_result)
        THEN [outcome |-> "result", calls |-> first,
              result |-> [n \in 1..Len(first_result) |->
                             [ai_provider |-> active_provider] @@ first_result[n]]]
        ELSE IF ~enable_fallbacks
        THEN [outcome |-> "none", calls |-> first]
        ELSE IF stubs[fallback_provider] # "raise" /\ Taggable(fallback_result)
        THEN [outcome |-> "result", calls |-> both,
              result |-> [n \in 1..Len(fallback_result) |->
                             [ai_provider |-> fallback_provider,
                              fallback_used |-> TRUE] @@ fallback_result[n]]]
        ELSE [outcome |-> "none", calls |-> both]

\* _convert_recommendation_request_to_profile: a profile whose
\* learning_preferences hold no learning style
ConvertRecommendationRequestToProfile(request) ==
    [present |-> TRUE, learning_style |-> "visual"]

\* RecommendationStrategy(strategy.lower()), hybrid for None or no member
ParseStrategy(strategy) ==
    IF strategy # "" /\ Lower(strategy) \in RecommendationStrategies
    THEN Lower(strategy) ELSE "hybrid"

\* get_algorithmic_content_recommendations: at most 10 from the engine
GetAlgorithmicContentRecommendations(request, strategy, embeddings) ==
    GetPersonalizedRecommendations(request,
        ConvertRecommendationRequestToProfile(request), ParseStrategy(strategy),
        10, embeddings, user_interaction_matrix, peer_success_rates)

CombineRecommendationsKeepingDuplicates(ai_recommendations, algorithmic_recommendations) ==
    LET ai_count == Min(Len(ai_recommendations), 6)
        first_ai == SubSeq(ai_recommendations, 1, ai_count)
        F[n \in 0..Len(algorithmic_recommendations)] ==
            IF n = 0 THEN first_ai
            ELSE LET rec == algorithmic_recommendations[n]
                 IN  IF Len(F[n - 1]) >= 10
                     THEN F[n - 1]
                     ELSE Append(F[n - 1], [rec EXCEPT !.source = "algorithmic_enhanced"])
    IN  F[Len(algorithmic_recommendations)]

\* _combine_recommendations: the first 6 AI items, then the engine's items
\* whose content id is not among them, re-tagged, up to 10 in all; an AI
\* item without content id contributes None, which no engine item has
CombineRecommendations(ai_recommendations, algorithmic_recommendations) ==
    LET ai_count == Min(Len(ai_recommendations), 6)
        first_ai == SubSeq(ai_recommendations, 1, ai_count)
        ai_content_ids == {first_ai[n].content_id :
                              n \in {m \in 1..ai_count : "content_id" \in DOMAIN first_ai[m]}}
        F[n \in 0..Len(algorithmic_recommendations)] ==
            IF n = 0 THEN first_ai
            ELSE LET rec == algorithmic_recommendations[n]
                 IN  IF Len(F[n - 1]) >= 10 \/ rec.content_id \in ai_content_ids
                     THEN F[n - 1]
                     ELSE Append(F[n - 1], [rec EXCEPT !.source = "algorithmic_enhanced"])
    IN  F[Len(algorithmic_recommendations)]

\* the branches of get_content_recommendations, given what
\* _get_ai_content_recommendations and the engine produced: the blend when
\* the AI list is non-empty and no item of it is tagged fallback_used, else
\* the engine's list as it is; after an error the engine's list if
\* fallbacks are enabled
BlendOrFallBack(ai, algorithmic_recommendations) ==
    IF ai.outcome = "raised"
    THEN IF enable_fallbacks
         THEN [raised |-> FALSE, calls |-> ai.calls,
               value |-> algorithmic_recommendations]
         ELSE [raised |-> TRUE, calls |-> ai.calls, error |-> "AIServiceError"]
    ELSE IF /\ ai.outcome = "result"
            /\ ai.result # <<>>
            /\ \A n \in 1..Len(ai.result) : ~Get(ai.result[n], "fallback_used", FALSE)
    THEN [raised |-> FALSE, calls |-> ai.calls,
          value |-> CombineRecommendations(ai.result, algorithmic_recommendations)]
    ELSE [raised |-> FALSE, calls |-> ai.calls,
          value |-> algorithmic_recommendations]

\* get_content_recommendations: what it returns or that it raises, with the
\* provider invocations it made; the handler of an error calls the engine
\* without the strategy argument
GetContentRecommendations(request, provider, strategy, stubs, embeddings) ==
    LET ai == GetAiContentRecommendations(request, provider, stubs)
    IN  BlendOrFallBack(ai,
            GetAlgorithmicContentRecommendations(request,
                IF ai.outcome = "raised" THEN "" ELSE strategy, embeddings))

(***************************************************************************)
(* Requests and stubs of the orchestrator check.                           *)
(***************************************************************************)
\* time_commitment passes the request's validator: 1..40
LearningPathRequests ==
    {[user_id |-> "u1",
      subject |-> s,
      education_level |-> e,
      current_level |-> "beginner",
      learning_goals |-> g,
      time_commitment |-> t,
      learning_style |-> "visual"] :
        s \in {"mathematics", "art"}, e \in {"k12", "college"},
        g \in {<<>>, <<"equations">>, <<"equations", "equations">>,
                <<"world peace">>},
        t \in {1, 10}}

OrchRecommendationRequests ==
    {r \in ContentRecommendationRequests :
        /\ r.current_topic = "art"
        /\ r.education_level = "college"
        /\ r.preferred_formats = <<>>
        /\ Cardinality(r.exclude_content) # 2}

(***************************************************************************)
(* The provider clients.  What one call of a client meets is its           *)
(* environment: whether the Gemini model was configured (OpenAIService has *)
(* no such attribute), whether the client holds a Redis client, whether    *)
(* the cache holds a result under the request's key (a failing cache read  *)
(* is logged and reads as a miss), whether _check_rate_limits rejects the  *)
(* call, and what the provider request does: it returns a completion that  *)
(* holds JSON, holds no JSON or holds JSON that does not parse, or it      *)
(* raises RateLimitError or the client's API error.  A result is           *)
(* [raised |-> FALSE, value |-> v] or [raised |-> TRUE, error |-> e].      *)
(***************************************************************************)
ClientOperations == {"client_learning_path", "client_recommendations"}

ClientEnvironments(provider) ==
    {env \in [model : BOOLEAN, redis : BOOLEAN, cached : BOOLEAN,
              rate_limited : BOOLEAN,
              response : {"json", "text", "malformed", "RateLimitError", "APIError"}] :
        /\ provider = "openai" => env.model
        /\ ~env.model => ~env.redis /\ ~env.rate_limited /\ env.response = "json"
        /\ env.cached => env.redis
        /\ env.rate_limited => env.response = "json"}

\* _get_fallback_learning_path and _get_fallback_recommendations of
\* OpenAIService
OpenAIFallback(operation, request) ==
    IF operation = "client_learning_path"
    THEN [source |-> "fallback", user_id |-> request.user_id,
          subject |-> request.subject]
         @@ (IF request.education_level = "k12" /\ Lower(request.subject) = "mathematics"
             THEN [objectives |-> <<[str |-> "Master basic arithmetic operations"],
                                    [str |-> "Understand fractions and decimals"],
                                    [str |-> "Learn algebraic concepts"],
                                    [str |-> "Practice problem-solving skills"]>>,
                   timeline |-> "8-12 weeks"]
             ELSE [objectives |-> <<[str |-> "Learn " \o request.subject \o " fundamentals"],
                                    [str |-> "Practice " \o request.subject \o " skills"],
                                    [str |-> "Apply " \o request.subject \o " knowledge"],
                                    [str |-> "Master " \o request.subject \o " concepts"]>>,
                   timeline |-> "8-12 weeks"])
    ELSE <<[title |-> "Introduction to " \o request.current_topic,
            format |-> "video", source |-> "fallback"],
           [title |-> request.current_topic \o " Practice Exercises",
            format |-> "interactive", source |-> "fallback"],
           [title |-> "Advanced " \o request.current_topic \o " Concepts",
            format |-> "article", source |-> "fallback"]>>

\* the same methods of GeminiService
GeminiFallback(operation, request) ==
    IF operation = "client_learning_path"
    THEN [source |-> "gemini_fallback", user_id |-> request.user_id,
          subject |-> request.subject]
         @@ (IF request.education_level = "k12" /\ Lower(request.subject) = "mathematics"
             THEN [objectives |-> <<[str |-> "Master basic arithmetic operations"],
                                    [str |-> "Understand fractions and decimals"],
                                    [str |-> "Learn algebraic concepts"],
                                    [str |-> "Practice problem-solving skills"]>>,
                   timeline |-> "8-12 weeks"]
             ELSE [objectives |-> <<[str |-> "Learn " \o request.subject \o " fundamentals"],
                                    [str |-> "Practice " \o request.subject \o " skills"],
                                    [str |-> "Apply " \o request.subject \o " knowledge"],
                                    [str |-> "Master " \o request.subject \o " concepts"]>>,
                   timeline |-> "8-12 weeks"])
    ELSE <<[title |-> "Introduction to " \o request.current_topic,
            format |-> "video", source |-> "gemini_fallback"],
           [title |-> request.current_topic \o " Practice Exercises",
            format |-> "interactive", source |-> "gemini_fallback"],
           [title |-> "Advanced " \o request.current_topic \o " Concepts",
            format |-> "article", source |-> "gemini_fallback"]>>

\* as OpenAIGenerate, but an API error leaves the method whatever the
\* fallback setting
OpenAIGenerateReraising(operation, request, env) ==
    LET path == operation = "client_learning_path"
        fallback == [raised |-> FALSE, value |-> OpenAIFallback(operation, request)]
        parsed ==
            CASE env.response = "json" ->
                     IF path THEN [objectives |-> <<[str |-> "Learn the fundamentals"]>>,
                                   timeline |-> "4 weeks"]
                     ELSE <<[title |-> "Khan Academy"]>>
              [] env.response = "text" ->
                     IF path THEN [objectives |-> <<[str |-> "Parse and structure the learning content"]>>,
                                   timeline |-> "4-6 weeks",
                                   source |-> "openai_text_fallback"]
                     ELSE <<[title |-> "Educational Content",
                             source |-> "openai_text_fallback"]>>
              [] OTHER ->
                     IF path THEN [objectives |-> <<[str |-> "Review learning materials"]>>,
                                   timeline |-> "4-6 weeks",
                                   source |-> "openai_parse_error"]
                     ELSE <<[title |-> "Learning Resource",
                             source |-> "openai_parse_error"]>>
    IN  IF enable_fallbacks /\ env.redis /\ env.cached
        THEN [raised |-> FALSE,
              value |-> IF path THEN [objectives |-> <<[str |-> "Learn the fundamentals"]>>,
                                      timeline |-> "4 weeks"]
                        ELSE <<[title |-> "Khan Academy"]>>]
        ELSE IF env.rate_limited \/ env.response = "RateLimitError" THEN fallback
        ELSE IF env.response = "APIError"
        THEN [raised |-> TRUE, error |-> "OpenAIError"]
        ELSE [raised |-> FALSE, value |-> parsed]

\* OpenAIService.generate_learning_path and get_content_recommendations:
\* cache lookup, rate limits, request, parsing; RateLimitError always ends
\* in the fallback, every other exception when fallbacks are enabled.  The
\* parsers catch their own errors.
OpenAIGenerate(operation, request, env) ==
    LET path == operation = "client_learning_path"
        fallback == [raised |-> FALSE, value |-> OpenAIFallback(operation, request)]
        parsed ==
            CASE env.response = "json" ->
                     IF path THEN [objectives |-> <<[str |-> "Learn the fundamentals"]>>,
                                   timeline |-> "4 weeks"]
                     ELSE <<[title |-> "Khan Academy"]>>
              [] env.response = "text" ->
                     IF path THEN [objectives |-> <<[str |-> "Parse and structure the learning content"]>>,
                                   timeline |-> "4-6 weeks",
                                   source |-> "openai_text_fallback"]
                     ELSE <<[title |-> "Educational Content",
                             source |-> "openai_text_fallback"]>>
              [] OTHER ->
                     IF path THEN [objectives |-> <<[str |-> "Review learning materials"]>>,
                                   timeline |-> "4-6 weeks",
                                   source |-> "openai_parse_error"]
                     ELSE <<[title |-> "Learning Resource",
                             source |-> "openai_parse_error"]>>
    IN  IF enable_fallbacks /\ env.redis /\ env.cached
        THEN [raised |-> FALSE,
              value |-> IF path THEN [objectives |-> <<[str |-> "Learn the fundamentals"]>>,
                                      timeline |-> "4 weeks"]
                        ELSE <<[title |-> "Khan Academy"]>>]
        ELSE IF env.rate_limited \/ env.response = "RateLimitError" THEN fallback
        ELSE IF env.response = "APIError"
        THEN IF enable_fallbacks THEN fallback
             ELSE [raised |-> TRUE, error |-> "OpenAIError"]
        ELSE [raised |-> FALSE, value |-> parsed]

\* the same methods of GeminiService: without a model the fallback is
\* returned before the cache is looked at, and the parsers tag a parsed
\* result with source "gemini"
GeminiGenerate(operation, request, env) ==
    LET path == operation = "client_learning_path"
        fallback == [raised |-> FALSE, value |-> GeminiFallback(operation, request)]
        parsed ==
            CASE env.response = "json" ->
                     IF path THEN [objectives |-> <<[str |-> "Learn the fundamentals"]>>,
                                   timeline |-> "4 weeks", source |-> "gemini"]
                     ELSE <<[title |-> "Khan Academy", source |-> "gemini"]>>
              [] env.response = "text" ->
                     IF path THEN [objectives |-> <<[str |-> "Parse and structure the learning content"]>>,
                                   timeline |-> "4-6 weeks",
                                   source |-> "gemini_text_fallback"]
                     ELSE <<[title |-> "Educational Content",
                             source |-> "gemini_text_fallback"]>>
              [] OTHER ->
                     IF path THEN [objectives |-> <<[str |-> "Review learning materials"]>>,
                                   timeline |-> "4-6 weeks",
                                   source |-> "gemini_parse_error"]
                     ELSE <<[title |-> "Learning Resource",
                             source |-> "gemini_parse_error"]>>
    IN  IF ~env.model THEN fallback
        ELSE IF enable_fallbacks /\ env.redis /\ env.cached
        THEN [raised |-> FALSE,
              value |-> IF path THEN [objectives |-> <<[str |-> "Learn the fundamentals"]>>,
                                      timeline |-> "4 weeks", source |-> "gemini"]
                        ELSE <<[title |-> "Khan Academy", source |-> "gemini"]>>]
        ELSE IF env.rate_limited \/ env.response = "RateLimitError" THEN fallback
        ELSE IF env.response = "APIError"
        THEN IF enable_fallbacks THEN fallback
             ELSE [raised |-> TRUE, error |-> "AIServiceError"]
        ELSE [raised |-> FALSE, value |-> parsed]

\* POST /learning-paths/provider/{provider} takes any name; the
\* recommendation routes pass None, "openai" or "gemini"
ProviderArguments(op) ==
    CASE op = "learning_path" -> {"", "openai", "Gemini", "foo"}
      [] op = "recommendations" -> {"", "openai", "gemini"}
      [] op \in ClientOperations -> {"", "Gemini"}
      [] OTHER -> {""}

StrategyArguments(op) ==
    IF op = "recommendations" THEN {"", "collaborative_filtering", "foo"} ELSE {""}

StubBehaviours(op) ==
    CASE op = "learning_path" ->
             [Providers -> {"raise", "strings", "dicts", "bare"}]
      [] op = "recommendations" ->
             {f \in [Providers -> {"raise", "empty", "two", "seven", "malformed"}] :
                 f["gemini"] # "malformed"}
      [] op \in ClientOperations ->
             {f \in [Providers -> ClientEnvironments("gemini")] :
                 f["openai"] \in ClientEnvironments("openai")}
      [] OTHER -> {[p \in Providers |-> "raise"]}

OrchInit ==
    /\ orchPc = "start"
    /\ orchOp \in {"learning_path", "recommendations", "set_provider"}
                   \cup ClientOperations
    /\ orchRequest \in CASE orchOp = "learning_path" -> LearningPathRequests
                       [] orchOp = "recommendations" -> OrchRecommendationRequests
                       [] orchOp = "client_learning_path" ->
                              {r \in LearningPathRequests :
                                  /\ r.education_level = "k12"
                                  /\ r.learning_goals = <<>>
                                  /\ r.time_commitment = 10}
                       [] orchOp = "client_recommendations" ->
                              {r \in OrchRecommendationRequests :
                                  r.exclude_content = {}}
                       [] OTHER -> {<<>>}
    /\ orchProvider \in ProviderArguments(orchOp)
    /\ orchStrategy \in StrategyArguments(orchOp)
    /\ current_provider \in Providers
    /\ enable_fallbacks \in BOOLEAN
    /\ orchStubs \in StubBehaviours(orchOp)
    /\ orchCalls = <<>>
    /\ orchResult = <<>>
    /\ orchSwitch = <<>>
    /\ RecStoresInitial
    /\ OrchOthersIdle

SetProviderBeforeValidation(provider) ==
    /\ orchPc = "start"
    /\ orchOp = "set_provider"
    /\ current_provider' = IF Lower(provider) \in Providers THEN Lower(provider)
                           ELSE "openai"
    /\ orchSwitch' = [provider |-> provider, raised |-> Lower(provider) \notin Providers]
    /\ UNCHANGED <<orchPc, orchOp, orchRequest, orchProvider, orchStrategy,
                   enable_fallbacks, orchStubs, orchCalls, orchResult,
                   recStores, orchOthers>>

\* set_provider: ConfigurationError for a name that is no AIProvider.  The
\* calls of set_provider are followed in runs of their own: a run of one of
\* the two other operations starts under either default
SetProvider(provider) ==
    /\ orchPc = "start"
    /\ orchOp = "set_provider"
    /\ current_provider' = IF Lower(provider) \in Providers THEN Lower(provider)
                           ELSE current_provider
    /\ orchSwitch' = [provider |-> provider, raised |-> Lower(provider) \notin Providers]
    /\ UNCHANGED <<orchPc, orchOp, orchRequest, orchProvider, orchStrategy,
                   enable_fallbacks, orchStubs, orchCalls, orchResult,
                   recStores, orchOthers>>

\* the call is over: what it returned, and the invocations it made
OrchReturn(returned) ==
    /\ orchCalls' = returned.calls
    /\ orchResult' = [k \in DOMAIN returned \ {"calls"} |-> returned[k]]

GenerateLearningPathCallSwitchingProvider ==
    /\ orchPc = "start"
    /\ orchOp = "learning_path"
    /\ OrchReturn(GenerateLearningPath(orchRequest, orchProvider, orchStubs))
    /\ orchPc' = "done"
    /\ current_provider' = IF Lower(orchProvider) \in Providers
                           THEN Lower(orchProvider) ELSE current_provider
    /\ UNCHANGED <<orchOp, orchRequest, orchProvider, orchStrategy,
                   enable_fallbacks, orchStubs, orchSwitch, recStores, orchOthers>>

GenerateLearningPathCall ==
    /\ orchPc = "start"
    /\ orchOp = "learning_path"
    /\ OrchReturn(GenerateLearningPath(orchRequest, orchProvider, orchStubs))
    /\ orchPc' = "done"
    /\ UNCHANGED <<orchOp, orchRequest, orchProvider, orchStrategy,
                   current_provider, enable_fallbacks, orchStubs, orchSwitch,
                   recStores, orchOthers>>

\* the engine generates and caches an embedding for every candidate not
\* cached yet when its strategy uses vector similarity
GetContentRecommendationsCall ==
    /\ orchPc = "start"
    /\ orchOp = "recommendations"
    /\ LET candidate_ids == Range(ContentIds(GetCandidateContent(orchRequest)))
           generated == IF ParseStrategy(orchStrategy) \in {"vector_similarity", "hybrid"}
                        THEN candidate_ids \ DOMAIN content_embeddings
                        ELSE {}
       IN  \E fresh \in [generated -> EmbeddingCosines] :
               /\ content_embeddings' =
                      [c \in DOMAIN content_embeddings \cup generated |->
                          IF c \in generated THEN fresh[c] ELSE content_embeddings[c]]
               /\ OrchReturn(GetContentRecommendations(orchRequest,
                      orchProvider, orchStrategy, orchStubs, content_embeddings'))
    /\ orchPc' = "done"
    /\ UNCHANGED <<orchOp, orchRequest, orchProvider, orchStrategy,
                   current_provider, enable_fallbacks, orchStubs, orchSwitch,
                   user_interaction_matrix, peer_success_rates, orchOthers>>

\* _get_ai_enhanced_path and _get_ai_content_recommendations over the two
\* clients themselves: a client that raises is a provider failure to the
\* orchestrator, any value it returns a provider success
ProviderClientCall ==
    /\ orchPc = "start"
    /\ orchOp \in ClientOperations
    /\ LET results ==
               [p \in Providers |->
                   IF p = "openai"
                   THEN OpenAIGenerate(orchOp, orchRequest, orchStubs[p])
                   ELSE GeminiGenerate(orchOp, orchRequest, orchStubs[p])]
           stubs == [p \in Providers |->
                        IF results[p].raised THEN "raise"
                        ELSE IF orchOp = "client_learning_path" THEN "strings"
                        ELSE "two"]
           ai == IF orchOp = "client_learning_path"
                 THEN GetAiEnhancedPath(orchProvider, stubs)
                 ELSE GetAiContentRecommendations(orchRequest, orchProvider, stubs)
       IN  /\ orchCalls' = ai.calls
           /\ orchResult' = [outcome |-> ai.outcome,
                             fallback_used |-> Len(ai.calls) = 2,
                             clients |-> [n \in 1..Len(ai.calls) |->
                                             results[ai.calls[n].provider]]]
    /\ orchPc' = "done"
    /\ UNCHANGED <<orchOp, orchRequest, orchProvider, orchStrategy,
                   current_provider, enable_fallbacks, orchStubs, orchSwitch,
                   recStores, orchOthers>>

OrchNext ==
    \/ \E provider \in {"openai", "Gemini", "foo"} : SetProvider(provider)
    \/ GenerateLearningPathCall
    \/ GetContentRecommendationsCall
    \/ ProviderClientCall

SpecOrch == OrchInit /\ [][OrchNext]_vars

(***************************************************************************)
(* Properties of the orchestrator.                                         *)
(***************************************************************************)
BothProvidersRaise == \A p \in Providers : orchStubs[p] = "raise"

\* the markers of a result that was computed locally: the 'source' values
\* of the path algorithm, of the canned recommendations and of the blend,
\* and the tags generate_algorithmic_learning_path and the retry put on
IsLocalSource(source) ==
    source \in {"algorithm_generated", "fallback_algorithm", "minimal_fallback",
                "fallback", "algorithmic_enhanced"}

HasFallbackMarker(d) ==
    \/ IsLocalSource(Get(d, "source", ""))
    \/ Get(d, "ai_provider", "") = "algorithmic"
    \/ Get(d, "generation_method", "") = "pure_algorithm"
    \/ Get(d, "fallback_used", FALSE)

IsAlgorithmicPath(path) == Get(path, "generation_method", "") = "pure_algorithm"

\* C2: when both provider clients raise on every call, generate_learning_path
\* does not raise and returns a path with at least one objective that
\* carries a fallback or algorithmic marker.
C2_PathReturnedWhenProvidersDown ==
    (orchPc = "done" /\ orchOp = "learning_path" /\ BothProvidersRaise)
    => /\ ~orchResult.raised
       /\ Len(Get(orchResult.value, "objectives", <<>>)) >= 1
       /\ HasFallbackMarker(orchResult.value)

\* C3: when both provider clients raise on every call,
\* get_content_recommendations does not raise and returns a non-empty list
\* every item of which carries a fallback or algorithmic marker.
C3_RecommendationsMarkedWhenProvidersDown ==
    (orchPc = "done" /\ orchOp = "recommendations" /\ BothProvidersRaise)
    => /\ ~orchResult.raised
       /\ orchResult.value # <<>>
       /\ \A n \in 1..Len(orchResult.value) : HasFallbackMarker(orchResult.value[n])

\* C6: with fallbacks enabled, generate_learning_path returns the pure
\* algorithmic path only when the chosen provider and the retry on the
\* other one both failed; when the chosen provider fails and the retry
\* succeeds, it returns the retried provider's result tagged fallback_used.
C6_SuccessfulRetryIsReturned ==
    (orchPc = "done" /\ orchOp = "learning_path" /\ enable_fallbacks
        /\ Len(orchCalls) >= 1)
    => /\ IsAlgorithmicPath(orchResult.value)
          => /\ Len(orchCalls) = 2
             /\ \A n \in 1..2 : orchCalls[n].behaviour = "raise"
       /\ (Len(orchCalls) = 2 /\ orchCalls[2].behaviour # "raise")
          => /\ ~IsAlgorithmicPath(orchResult.value)
             /\ Get(orchResult.value, "ai_provider", "") = orchCalls[2].provider
             /\ Get(orchResult.value, "fallback_used", FALSE)

\* at most two invocations, on different providers, the second only with
\* fallbacks enabled
AtMostOneRetryOnOtherProvider ==
    /\ Len(orchCalls) <= 2
    /\ Len(orchCalls) = 2
       => /\ orchCalls[1].provider # orchCalls[2].provider
          /\ enable_fallbacks

\* C7 as stated: during one call of generate_learning_path or
\* get_content_recommendations at most two provider invocations happen,
\* never two on the same provider, and the second happens only after the
\* first has raised and only when fallbacks are enabled.
C7_RetryOnlyAfterFirstRaised ==
    orchPc = "done"
    => /\ AtMostOneRetryOnOtherProvider
       /\ Len(orchCalls) = 2 => orchCalls[1].behaviour = "raise"

\* C7 amended: the same, but the second invocation happens only after the
\* first attempt has failed: the first provider's call raised, or it
\* returned recommendations that could not be tagged because an element of
\* the list is no dict.
C7_RetryOnlyAfterFirstAttemptFailed ==
    orchPc = "done"
    => /\ AtMostOneRetryOnOtherProvider
       /\ Len(orchCalls) = 2
          => \/ orchCalls[1].behaviour = "raise"
             \/ /\ orchOp = "recommendations"
                /\ ~Taggable(ProviderRecommendations(orchCalls[1].behaviour,
                                                     orchRequest.current_topic))

\* the first provider returned a list that cannot be tagged, and the other
\* provider was invoked
C7_Witness ==
    /\ orchPc = "done"
    /\ Len(orchCalls) = 2
    /\ orchCalls[1].behaviour = "malformed"
    /\ orchCalls[2].provider = "gemini"

\* C24: set_provider with a name that is, in lower case, neither "openai"
\* nor "gemini" raises ConfigurationError and leaves the default provider
\* as it was; with a valid name it does not raise and the default becomes
\* that provider; and the default changes in no step other than a
\* set_provider that does not raise.
C24_DefaultFollowsSuccessfulSetProvider ==
    [][/\ orchSwitch' # orchSwitch
          => IF Lower(orchSwitch'.provider) \in Providers
             THEN ~orchSwitch'.raised /\ current_provider' = Lower(orchSwitch'.provider)
             ELSE orchSwitch'.raised /\ current_provider' = current_provider
       /\ current_provider' # current_provider
          => /\ orchSwitch' # <<>>
             /\ ~orchSwitch'.raised
             /\ orchPc' = orchPc]_vars

\* set_provider("Gemini") made gemini the default, and a later
\* set_provider("foo") raised and left it so
C24_Witness ==
    /\ orchSwitch = [provider |-> "foo", raised |-> TRUE]
    /\ current_provider = "gemini"

\* C21: a per-call provider override that names a provider decides which
\* provider is attempted first in that call, whatever the default is; a
\* call without override attempts the default first; and no call, with or
\* without override, changes the default that get_current_provider
\* reports.
C21_OverrideFirstAndDefaultKept ==
    [][(orchPc = "start" /\ orchPc' = "done")
       => /\ current_provider' = current_provider
          /\ Lower(orchProvider) \in Providers
             => /\ orchCalls' # <<>>
                /\ orchCalls'[1].provider = Lower(orchProvider)
          /\ orchProvider = ""
             => /\ orchCalls' # <<>>
                /\ orchCalls'[1].provider = current_provider]_vars

\* a call with the override "Gemini" under the default openai attempted
\* gemini first, and the default is still openai
C21_Witness ==
    /\ orchPc = "done"
    /\ orchProvider = "Gemini"
    /\ current_provider = "openai"
    /\ orchCalls # <<>>
    /\ orchCalls[1].provider = "gemini"

\* the call blended what the first provider returned with the engine's list
Blended ==
    /\ orchPc = "done"
    /\ orchOp = "recommendations"
    /\ Len(orchCalls) = 1
    /\ orchCalls[1].behaviour \in {"two", "seven"}

\* C15: the blend is the first min(6, n) provider items in their order,
\* followed by the engine's items whose content id is not among those
\* provider items, in the engine's order and each tagged source
\* "algorithmic_enhanced", and it never has more than 10 items.
C15_ProviderItemsThenNewEngineItems ==
    Blended
    => LET provided == ProviderRecommendations(orchCalls[1].behaviour,
                                               orchRequest.current_topic)
           ai_count == Min(6, Len(provided))
           provided_ids == {provided[n].content_id :
                               n \in {m \in 1..ai_count : "content_id" \in DOMAIN provided[m]}}
           engine == GetAlgorithmicContentRecommendations(orchRequest, orchStrategy,
                                                          content_embeddings)
           fresh == SelectSeq(engine, LAMBDA rec : rec.content_id \notin provided_ids)
           blend == orchResult.value
       IN  /\ ~orchResult.raised
           /\ Len(blend) = Min(10, ai_count + Len(fresh))
           /\ \A n \in 1..ai_count :
                  blend[n] = [ai_provider |-> orchCalls[1].provider] @@ provided[n]
           /\ \A n \in (ai_count + 1)..Len(blend) :
                  /\ blend[n].source = "algorithmic_enhanced"
                  /\ blend[n] = [fresh[n - ai_count] EXCEPT !.source = "algorithmic_enhanced"]

\* seven provider items, of which six are kept, and five engine items, of
\* which four still fit
C15_Witness ==
    /\ Blended
    /\ orchCalls[1].behaviour = "seven"
    /\ Len(orchResult.value) = 10
    /\ orchResult.value[6].ai_provider = orchCalls[1].provider
    /\ orchResult.value[7].source = "algorithmic_enhanced"

(***************************************************************************)
(* Learning-path algorithm: adapt_path_based_on_performance.               *)
(* A path is the dict the caller holds; the caller feeds the path a call   *)
(* returned into the next call.  Hours are Python ints; a list element     *)
(* that is a str instead of a dict is [str |-> s].                         *)
(***************************************************************************)
MaxAdaptations == 2

\* int(hours * 0.7) in IEEE-754 double arithmetic, for an int hours >= 0.
\* The double 0.7 is 0.7 - 0.4 * 2^-53, so hours * 0.7 lies 0.4*hours*2^-53
\* below 7*hours/10.  When 7*hours/10 is a whole number m in [2^k, 2^(k+1))
\* the doubles next to m are 2^(k-52) apart: the product is rounded to m
\* unless it lies more than half that distance below m, and then int() gives
\* m - 1 (int(90 * 0.7) = 62).  Otherwise int() gives the floor of 7*hours/10.
\* PowerOfTwoBelow(m) is the largest power of two that is <= m.
IntOfTimes07(hours) ==
    LET m == (7 * hours) \div 10
        RECURSIVE PowerOfTwoBelow(_)
        PowerOfTwoBelow(x) == IF x < 2 THEN 1 ELSE 2 * PowerOfTwoBelow(x \div 2)
    IN  IF hours % 10 = 0 /\ hours > 0 /\ 4 * hours > 10 * PowerOfTwoBelow(m)
        THEN m - 1
        ELSE m

\* the loop body of _adapt_objectives_for_performance: both tests read the
\* hours of the objective as it came in; int(hours * 1.5) is exact
AdaptObjectivesForPerformance(objectives, struggling_concepts, mastered_concepts, difficulty_adjustment) ==
    [n \in 1..Len(objectives) |->
        LET obj == objectives[n]
            topics == Range(Get(obj, "topics", <<>>))
            hours == Get(obj, "estimated_hours", 2)
            remedial ==
                IF topics \cap Range(struggling_concepts) # {}
                THEN [remedial_content |-> TRUE,
                      estimated_hours |-> (3 * hours) \div 2] @@ obj
                ELSE obj
        IN  IF topics \cap Range(mastered_concepts) # {}
            THEN [accelerated |-> TRUE,
                  estimated_hours |-> Max(1, IntOfTimes07(hours))] @@ remedial
            ELSE remedial]

AdaptationHistoryPrepended(current_path, adaptation_record) ==
    <<adaptation_record>> \o Get(current_path, "adaptation_history", <<>>)

\* current_path.get("adaptation_history", []) + [adaptation_record]
AdaptationHistory(current_path, adaptation_record) ==
    Get(current_path, "adaptation_history", <<>>) \o <<adaptation_record>>

\* obj.copy() raises for an objective that is no dict; the handler turns
\* every exception into AIServiceError
AdaptPathBasedOnPerformance(current_path, performance_data, now) ==
    LET performance_analysis ==
            [average_comprehension |-> Get(performance_data, "comprehension_score", 75),
             struggling_concepts |-> Get(performance_data, "struggling_concepts", <<>>),
             mastered_concepts |-> Get(performance_data, "mastered_concepts", <<>>),
             engagement_trend |-> "stable"]
        difficulty_adjustment ==
            IF performance_analysis.average_comprehension < 60 THEN "decrease"
            ELSE IF performance_analysis.average_comprehension > 90 THEN "increase"
            ELSE "maintain"
        objectives == Get(current_path, "objectives", <<>>)
        updated_progression ==
            [last_adjustment |->
                [timestamp |-> now,
                 adjustment |-> difficulty_adjustment,
                 reason |-> performance_analysis.average_comprehension]]
            @@ Get(current_path, "difficulty_progression", <<>>)
        adaptation_record ==
            [timestamp |-> now,
             reason |-> "performance_based_adaptation",
             changes |-> [difficulty_adjustment |-> difficulty_adjustment,
                          added_objectives |-> <<>>,
                          removed_objectives |-> <<>>,
                          modified_objectives |-> <<>>],
             performance_metrics |-> performance_analysis]
    IN  IF \E n \in 1..Len(objectives) : IsStr(objectives[n])
        THEN [raised |-> TRUE, error |-> "AIServiceError"]
        ELSE [raised |-> FALSE,
              value |->
                [objectives |-> AdaptObjectivesForPerformance(objectives,
                                    performance_analysis.struggling_concepts,
                                    performance_analysis.mastered_concepts,
                                    difficulty_adjustment),
                 difficulty_progression |-> updated_progression,
                 adaptation_history |-> AdaptationHistory(current_path, adaptation_record),
                 updated_at |-> now] @@ current_path]

(***************************************************************************)
(* Learning-path algorithm: create_fallback_path.                          *)
(* time_commitment is an int by its annotation only: the argument is       *)
(* [int |-> n], or [none |-> TRUE] for None.  Of an objective's keys        *)
(* 'description' and 'skills_gained' are left out.                         *)
(***************************************************************************)
CreateMinimalFallbackNoObjective(education_level, subject, now) ==
    [path_id |-> "minimal_fallback_" \o subject \o "_" \o ToString(now),
     subject |-> subject,
     education_level |-> education_level,
     objectives |-> <<>>,
     total_estimated_hours |-> 4,
     difficulty_progression |-> [starting_level |-> "beginner"],
     milestones |-> <<>>,
     created_at |-> now,
     source |-> "minimal_fallback"]

CreateMinimalFallback(education_level, subject, now) ==
    [path_id |-> "minimal_fallback_" \o subject \o "_" \o ToString(now),
     subject |-> subject,
     education_level |-> education_level,
     objectives |-> <<[id |-> "obj_1",
                       title |-> "Introduction to " \o subject,
                       difficulty |-> "beginner",
                       estimated_hours |-> 4]>>,
     total_estimated_hours |-> 4,
     difficulty_progression |-> [starting_level |-> "beginner"],
     milestones |-> <<>>,
     created_at |-> now,
     source |-> "minimal_fallback"]

\* the body of the try block; time_commitment // len(curriculum) raises
\* TypeError for None, and the handler returns the minimal path
CreateFallbackPath(education_level, subject, learning_goals, time_commitment, now) ==
    LET curriculum ==
            \* _get_fallback_curriculum
            CASE education_level = "k12" /\ subject = "mathematics" ->
                     <<"Basic arithmetic operations", "Fractions and decimals",
                       "Introduction to algebra", "Geometry fundamentals",
                       "Basic statistics">>
              [] education_level = "college" /\ subject = "computer_science" ->
                     <<"Programming fundamentals", "Data structures",
                       "Algorithm design", "Software development practices",
                       "System design basics">>
              [] OTHER ->
                     <<"Introduction to " \o subject,
                       "Fundamental concepts in " \o subject,
                       "Intermediate " \o subject \o " topics",
                       "Advanced " \o subject \o " applications">>
        objectives ==
            \* _create_fallback_objectives, i counted from 1
            [i \in 1..Len(curriculum) |->
                [id |-> "fallback_obj_" \o ToString(i),
                 title |-> curriculum[i],
                 difficulty |-> IF i <= 2 THEN "beginner" ELSE "intermediate",
                 estimated_hours |-> Max(2, time_commitment.int \div Len(curriculum)),
                 prerequisites |-> IF i > 1 THEN {"fallback_obj_" \o ToString(i - 1)}
                                   ELSE {}]]
        KeysInOrder == <<<<1, 0>>, <<1, 1>>, <<2, 0>>, <<2, 1>>, <<3, 0>>, <<3, 1>>>>
        sequenced_objectives ==
            \* _apply_basic_sequencing: sorted() is stable
            Flatten([k \in 1..Len(KeysInOrder) |->
                SelectSeq(objectives,
                    LAMBDA x : <<LevelValue(x.difficulty), Cardinality(x.prerequisites)>>
                                   = KeysInOrder[k])])
        default_progression ==
            \* _get_default_progression
            CASE education_level = "college" ->
                     [starting_level |-> "intermediate", target_level |-> "advanced",
                      progression_rate |-> "moderate"]
              [] education_level = "professional" ->
                     [starting_level |-> "intermediate", target_level |-> "advanced",
                      progression_rate |-> "accelerated"]
              [] OTHER ->
                     [starting_level |-> "beginner", target_level |-> "intermediate",
                      progression_rate |-> "gradual"]
        basic_milestones ==
            \* _create_basic_milestones: one milestone for every 2 objectives
            [m \in 1..((Len(sequenced_objectives) + 1) \div 2) |->
                [id |-> "milestone_" \o ToString(m),
                 objectives |-> [j \in 1..Min(2, Len(sequenced_objectives) - 2 * (m - 1)) |->
                                    sequenced_objectives[2 * (m - 1) + j].id]]]
    IN  IF "int" \notin DOMAIN time_commitment
        THEN CreateMinimalFallback(education_level, subject, now)
        ELSE [path_id |-> "fallback_" \o subject \o "_" \o education_level
                              \o "_" \o ToString(now),
              subject |-> subject,
              education_level |-> education_level,
              objectives |-> sequenced_objectives,
              total_estimated_hours |-> SumHours(sequenced_objectives),
              difficulty_progression |-> default_progression,
              milestones |-> basic_milestones,
              created_at |-> now,
              source |-> "fallback_algorithm"]

(***************************************************************************)
(* Paths and performance data of the adaptation check.                     *)
(***************************************************************************)
\* the paths a caller may hold: up to two objectives, and possibly the
\* record an earlier adaptation, at time 0, left in the history
AdaptPaths ==
    LET objective_choices ==
            {[id |-> "equations", topics |-> <<"algebra">>, estimated_hours |-> 3],
             [id |-> "shapes", topics |-> <<"geometry">>, estimated_hours |-> 90],
             [id |-> "proofs", topics |-> <<"geometry">>, estimated_hours |-> 1],
             [id |-> "graphs", topics |-> <<"algebra", "geometry">>, estimated_hours |-> 3],
             [id |-> "review", topics |-> <<"algebra">>],
             [id |-> "intro"],
             [str |-> "equations"]}
        earlier == AdaptPathBasedOnPerformance(<<>>, <<>>, 0).value.adaptation_history
    IN  {[path_id |-> "path_u1", objectives |-> objectives] @@ history :
            objectives \in UNION {[1..n -> objective_choices] : n \in 0..2},
            history \in {<<>>, [adaptation_history |-> earlier]}}

\* no concept is reported both as struggling and as mastered
PerformanceData ==
    {d \in {score @@ struggling @@ mastered :
                score \in {<<>>, [comprehension_score |-> 50]},
                struggling \in {<<>>, [struggling_concepts |-> <<"algebra">>]},
                mastered \in {[mastered_concepts |-> <<>>],
                              [mastered_concepts |-> <<"geometry">>],
                              [mastered_concepts |-> <<"algebra">>]}} :
        Range(Get(d, "struggling_concepts", <<>>)) \cap Range(d.mastered_concepts) = {}}

\* the arguments of create_fallback_path
FallbackArguments ==
    [education_level : {"k12", "college", "professional"},
     subject : {"mathematics", "computer_science", "art"},
     learning_goals : {<<>>, <<"equations">>},
     time_commitment : {[none |-> TRUE]} \cup {[int |-> n] : n \in {-5, 0, 10, 40}}]

\* str hashes are salted per interpreter process (PYTHONHASHSEED is
\* random unless set), so a process may order the topics that the
\* interaction histories name in any way
HashOrders ==
    LET topics == {"fractions", "decimals", "variables"}
    IN  {order \in [1..Cardinality(topics) -> topics] : Range(order) = topics}

\* the arguments of generate_personalized_path
GenerateArguments ==
    [user_profile :
        [user_id : {"u1"},
         education_level : {"k12", "college"},
         learning_preferences : {[learning_style |-> "visual"],
                                 [preferred_formats |-> <<"audio">>]},
         interaction_history :
            {<<>>,
             <<[subject |-> "mathematics", success_rate |-> 50,
                topics |-> <<"fractions">>]>>,
             <<[subject |-> "mathematics", success_rate |-> 50,
                topics |-> <<"fractions", "decimals">>],
               [subject |-> "mathematics", success_rate |-> 95,
                topics |-> <<"variables">>]>>,
             <<[subject |-> "mathematics", success_rate |-> 69,
                topics |-> <<"decimals", "fractions">>],
               [subject |-> "history", success_rate |-> 10,
                topics |-> <<"variables">>],
               [subject |-> "mathematics", success_rate |-> 80,
                topics |-> <<"variables">>]>>}],
     subject : {"mathematics", "art"},
     learning_goals : {<<>>, <<"equations">>, <<"equations", "equations">>},
     time_commitment : {0, 2, 10}]

LpInit ==
    /\ lpPc = "start"
    /\ lpOp \in {"adapt", "fallback", "generate"}
    /\ lpArgs \in CASE lpOp = "fallback" -> FallbackArguments
                  [] lpOp = "generate" -> GenerateArguments
                  [] OTHER -> {<<>>}
    /\ lpPath \in IF lpOp = "adapt" THEN AdaptPaths ELSE {<<>>}
    /\ lpPrev = <<>>
    /\ lpCalls = 0
    /\ lpNow = 1
    /\ lpRaised = FALSE
    /\ lpHashOrder \in IF lpOp = "generate" THEN HashOrders ELSE {<<>>}
    /\ LpOthersIdle

\* one call; the caller keeps the path it had when the call raises
AdaptPathBasedOnPerformanceCall ==
    /\ lpPc \in {"start", "done"}
    /\ lpOp = "adapt"
    /\ lpCalls < MaxAdaptations
    /\ \E performance_data \in PerformanceData :
          LET returned == AdaptPathBasedOnPerformance(lpPath, performance_data, lpNow)
          IN  /\ lpArgs' = performance_data
              /\ lpRaised' = returned.raised
              /\ lpPath' = IF returned.raised THEN lpPath ELSE returned.value
    /\ lpPrev' = lpPath
    /\ lpPc' = "done"
    /\ lpCalls' = lpCalls + 1
    /\ lpNow' = lpNow + 1
    /\ UNCHANGED <<lpOp, lpHashOrder, lpOthers>>

\* create_fallback_path returns on every branch
CreateFallbackPathCall ==
    /\ lpPc = "start"
    /\ lpOp = "fallback"
    /\ lpPath' = CreateFallbackPath(lpArgs.education_level, lpArgs.subject,
                                    lpArgs.learning_goals, lpArgs.time_commitment, lpNow)
    /\ lpPrev' = lpPath
    /\ lpRaised' = FALSE
    /\ lpPc' = "done"
    /\ lpCalls' = lpCalls + 1
    /\ lpNow' = lpNow + 1
    /\ UNCHANGED <<lpOp, lpArgs, lpHashOrder, lpOthers>>

\* one call with the arguments of the first; lpPrev keeps what the call
\* before returned
GeneratePersonalizedPathCall ==
    /\ lpPc \in {"start", "done"}
    /\ lpOp = "generate"
    /\ lpCalls < MaxAdaptations
    /\ LET returned == GeneratePersonalizedPath(lpArgs.user_profile, lpArgs.subject,
                            lpArgs.learning_goals, lpArgs.time_commitment,
                            lpNow, lpHashOrder)
       IN  /\ lpRaised' = returned.raised
           /\ lpPath' = IF returned.raised THEN <<>> ELSE returned.value
    /\ lpPrev' = lpPath
    /\ lpPc' = "done"
    /\ lpCalls' = lpCalls + 1
    /\ lpNow' = lpNow + 1
    /\ UNCHANGED <<lpOp, lpArgs, lpHashOrder, lpOthers>>

\* the service is started again between two calls: lifespan builds a new
\* AIService in a new interpreter process, whose string hashes are new
ServiceRestart ==
    /\ lpOp = "generate"
    /\ lpPc = "done"
    /\ lpHashOrder' \in HashOrders \ {lpHashOrder}
    /\ UNCHANGED <<lpPc, lpOp, lpArgs, lpPath, lpPrev, lpCalls, lpNow, lpRaised,
                   lpOthers>>

LpNext ==
    \/ AdaptPathBasedOnPerformanceCall
    \/ CreateFallbackPathCall
    \/ GeneratePersonalizedPathCall
    \/ ServiceRestart

SpecPath == LpInit /\ [][LpNext]_vars

(***************************************************************************)
(* Properties of the adaptation.                                           *)
(***************************************************************************)
HistoryOf(path) == Get(path, "adaptation_history", <<>>)

AdaptReturned == lpOp = "adapt" /\ lpPc = "done" /\ ~lpRaised

\* C11: each call of adapt_path_based_on_performance that returns, returns
\* a path whose adaptation_history is the input path's history followed by
\* exactly one new record, the one of this call; as every step of every
\* chain of calls obeys this, n adaptations add n records and keep every
\* earlier record unchanged at its position.
C11_HistoryExtendedByOneRecord ==
    [][(lpOp = "adapt" /\ lpCalls' # lpCalls /\ ~lpRaised')
        => /\ Len(HistoryOf(lpPath')) = Len(HistoryOf(lpPath)) + 1
           /\ SubSeq(HistoryOf(lpPath'), 1, Len(HistoryOf(lpPath))) = HistoryOf(lpPath)
           /\ HistoryOf(lpPath')[Len(HistoryOf(lpPath'))].timestamp = lpNow
           /\ HistoryOf(lpPath')[Len(HistoryOf(lpPath'))].performance_metrics.mastered_concepts
                  = lpArgs'.mastered_concepts]_vars

\* two adaptations of a path that already had one record in its history
C11_Witness ==
    /\ AdaptReturned
    /\ lpCalls = 2
    /\ Len(HistoryOf(lpPath)) = 3
    /\ HistoryOf(lpPath)[1].timestamp = 0

Touches(objective, concepts) ==
    Range(Get(objective, "topics", <<>>)) \cap Range(concepts) # {}

\* C20: in the returned path every objective that touches a struggling
\* concept has int(1.5 * previous hours) hours and the remedial_content
\* flag, and every objective that touches a mastered concept has
\* max(1, floor(0.7 * previous hours)) hours and the accelerated flag.
C20_HoursScaledForTouchedObjectives ==
    AdaptReturned
    => \A n \in 1..Len(lpPath.objectives) :
          LET before == lpPrev.objectives[n]
              after == lpPath.objectives[n]
          IN  "estimated_hours" \in DOMAIN before
              => /\ Touches(before, Get(lpArgs, "struggling_concepts", <<>>))
                    => /\ after.estimated_hours = (3 * before.estimated_hours) \div 2
                       /\ Get(after, "remedial_content", FALSE)
                 /\ Touches(before, Get(lpArgs, "mastered_concepts", <<>>))
                    => /\ after.estimated_hours
                              = Max(1, (7 * before.estimated_hours) \div 10)
                       /\ Get(after, "accelerated", FALSE)

(***************************************************************************)
(* Properties of the fallback path.                                        *)
(***************************************************************************)
\* C16: create_fallback_path never raises, the path it returns has at least
\* one objective, and when its construction fails it returns the minimal
\* path with its single objective.
C16_FallbackPathAlwaysReturned ==
    (lpOp = "fallback" /\ lpPc = "done")
    => /\ ~lpRaised
       /\ Len(lpPath.objectives) >= 1
       /\ "int" \notin DOMAIN lpArgs.time_commitment
          => /\ lpPath.source = "minimal_fallback"
             /\ Len(lpPath.objectives) = 1
             /\ lpPath.objectives[1].id = "obj_1"

\* time_commitment=None makes the construction fail
C16_Witness ==
    /\ lpOp = "fallback"
    /\ lpPc = "done"
    /\ lpArgs.time_commitment = [none |-> TRUE]
    /\ lpPath.source = "minimal_fallback"

(***************************************************************************)
(* Properties of the generation.                                           *)
(***************************************************************************)
\* two calls of generate_personalized_path have returned, one after the other
GeneratedTwice ==
    lpOp = "generate" /\ lpCalls >= 2 /\ lpPrev # <<>> /\ lpPath # <<>>

\* C18: two calls of generate_personalized_path with the same profile,
\* subject, goals and weekly hours return the same objectives in the same
\* order with the same hour estimates
C18_RepeatedCallsReturnSameObjectives ==
    GeneratedTwice =>
        /\ lpPath.objectives = lpPrev.objectives
        /\ lpPath.total_estimated_hours = lpPrev.total_estimated_hours

(***************************************************************************)
(* The event loop of the service process.  lifespan builds the services    *)
(* and starts the health monitoring task; every request is a task of the   *)
(* same loop.  A step of the model is what one task does between two       *)
(* suspension points.                                                      *)
(***************************************************************************)
MaxRequests == 3

MaxChecks == 2

UpdateMatchFeedbackAboveThreshold(history, user_id, feedback_score) ==
    LET user_history == Get(history, user_id,
                            [successful_matches |-> 0,
                             total_matches |-> 0,
                             feedback_scores |-> <<>>])
        updated ==
            [successful_matches |->
                 user_history.successful_matches
                 + (IF RatLess(Rat(7, 10), feedback_score) THEN 1 ELSE 0),
             total_matches |-> user_history.total_matches + 1,
             feedback_scores |-> Append(user_history.feedback_scores, feedback_score)]
    IN  [u \in DOMAIN history \cup {user_id} |->
            IF u = user_id THEN updated ELSE history[u]]

\* update_match_feedback on the dict `history`: the user's record, made
\* first if there is none, with one more match, the score appended, and
\* one more successful match if feedback_score >= 0.7.  peer_id and
\* feedback_type are not read
UpdateMatchFeedback(history, user_id, feedback_score) ==
    LET user_history == Get(history, user_id,
                            [successful_matches |-> 0,
                             total_matches |-> 0,
                             feedback_scores |-> <<>>])
        updated ==
            [successful_matches |->
                 user_history.successful_matches
                 + (IF RatLeq(Rat(7, 10), feedback_score) THEN 1 ELSE 0),
             total_matches |-> user_history.total_matches + 1,
             feedback_scores |-> Append(user_history.feedback_scores, feedback_score)]
    IN  [u \in DOMAIN history \cup {user_id} |->
            IF u = user_id THEN updated ELSE history[u]]

\* get_matching_analytics; of the keys, 'time_period_days' and
\* 'matching_accuracy' are left out
GetMatchingAnalytics(user_id) ==
    LET user_history == Get(interaction_history, user_id, <<>>)
        feedback_scores == Get(user_history, "feedback_scores", <<>>)
        RECURSIVE Sum(_)
        Sum(scores) == IF scores = <<>> THEN RatZero
                       ELSE RatAdd(Head(scores), Sum(Tail(scores)))
    IN  [user_id |-> user_id,
         total_matches |-> Get(user_history, "total_matches", 0),
         successful_matches |-> Get(user_history, "successful_matches", 0),
         success_rate |-> Rat(Get(user_history, "successful_matches", 0),
                              Max(Get(user_history, "total_matches", 1), 1)),
         average_feedback_score |->
             RatMul(Sum(feedback_scores), Rat(1, Max(Len(feedback_scores), 1)))]

UpdatePeerMatchFeedbackSuspended(request) ==
    /\ loopOp = "feedback"
    /\ request \in DOMAIN feedback_requests
    /\ feedback_requests[request].pc \in {"scheduled", "suspended"}
    /\ LET r == feedback_requests[request]
       IN  IF r.pc = "scheduled"
           THEN /\ feedback_requests' =
                       [feedback_requests EXCEPT ![request] =
                           [pc |-> "suspended", read |-> interaction_history] @@ r]
                /\ UNCHANGED interaction_history
           ELSE /\ feedback_requests' =
                       [feedback_requests EXCEPT ![request].pc = "done"]
                /\ interaction_history' =
                       LET written == UpdateMatchFeedback(r.read, r.user_id,
                                                          r.feedback_score)
                       IN  [u \in DOMAIN interaction_history \cup {r.user_id} |->
                               IF u = r.user_id THEN written[u]
                               ELSE interaction_history[u]]
    /\ UNCHANGED <<loopOp, monitoring_task, health_checks, closePc, closeError,
                   loopOthers>>

\* POST /peer-matching/feedback: the handler awaits
\* AIService.update_peer_match_feedback, which awaits the engine's
\* update_match_feedback; neither coroutine awaits anything that suspends,
\* so the task of a request runs from the start of the handler to its
\* return in one step of the loop
UpdatePeerMatchFeedback(request) ==
    /\ loopOp = "feedback"
    /\ request \in DOMAIN feedback_requests
    /\ feedback_requests[request].pc = "scheduled"
    /\ LET r == feedback_requests[request]
       IN  interaction_history' =
               UpdateMatchFeedback(interaction_history, r.user_id, r.feedback_score)
    /\ feedback_requests' = [feedback_requests EXCEPT ![request].pc = "done"]
    /\ UNCHANGED <<loopOp, monitoring_task, health_checks, closePc, closeError,
                   loopOthers>>

\* one step of the task that runs _monitoring_loop.  After cancel() the
\* next step of the task has CancelledError thrown in where the task
\* waits: a task that has not started never runs its coroutine; in the two
\* awaits of the try the handler of CancelledError leaves the loop; in the
\* sleep of the handler of Exception nothing catches it, and the task ends
\* cancelled.  perform_health_check awaits the clients of Redis, OpenAI and
\* Pinecone, and returns or raises
MonitoringLoop ==
    /\ loopOp = "health"
    /\ monitoring_task.pc # "finished"
    /\ IF monitoring_task.must_cancel
       THEN /\ monitoring_task' =
                   [monitoring_task EXCEPT
                       !.pc = "finished",
                       !.cancelled = monitoring_task.pc \in {"created", "backoff"}]
            /\ UNCHANGED health_checks
       ELSE CASE monitoring_task.pc = "created" ->
                     /\ monitoring_task' = [monitoring_task EXCEPT !.pc = "sleeping"]
                     /\ UNCHANGED health_checks
              [] monitoring_task.pc = "sleeping" ->
                     /\ health_checks < MaxChecks
                     /\ monitoring_task' = [monitoring_task EXCEPT !.pc = "checking"]
                     /\ health_checks' = health_checks + 1
              [] monitoring_task.pc = "checking" ->
                     /\ \/ monitoring_task' = [monitoring_task EXCEPT !.pc = "sleeping"]
                        \/ monitoring_task' =
                               [monitoring_task EXCEPT
                                   !.pc = "backoff",
                                   !.failed = monitoring_task.failed + 1]
                     /\ UNCHANGED health_checks
              [] OTHER ->
                     /\ monitoring_task' = [monitoring_task EXCEPT !.pc = "sleeping"]
                     /\ UNCHANGED health_checks
    /\ UNCHANGED <<loopOp, interaction_history, feedback_requests, closePc,
                   closeError, loopOthers>>

CloseWithoutHandler ==
    /\ loopOp = "health"
    /\ \/ /\ closePc = "idle"
          /\ monitoring_task' =
                 [monitoring_task EXCEPT
                     !.must_cancel = monitoring_task.pc # "finished"]
          /\ closePc' = "awaiting"
          /\ UNCHANGED closeError
       \/ /\ closePc = "awaiting"
          /\ monitoring_task.pc = "finished"
          /\ IF monitoring_task.cancelled
             THEN closePc' = "raised" /\ closeError' = "CancelledError"
             ELSE \/ closePc' = "returned" /\ closeError' = ""
                  \/ closePc' = "raised" /\ closeError' = "ConnectionError"
          /\ UNCHANGED monitoring_task
    /\ UNCHANGED <<loopOp, interaction_history, feedback_requests, health_checks,
                   loopOthers>>

\* HealthService.close, in the shutdown part of lifespan: cancel() and
\* then, once the task has finished, the await of the task returns or
\* raises the CancelledError the task ended with, which is passed over;
\* closing the Redis client returns or raises
Close ==
    /\ loopOp = "health"
    /\ \/ /\ closePc = "idle"
          /\ monitoring_task' =
                 [monitoring_task EXCEPT
                     !.must_cancel = monitoring_task.pc # "finished"]
          /\ closePc' = "awaiting"
          /\ UNCHANGED closeError
       \/ /\ closePc = "awaiting"
          /\ monitoring_task.pc = "finished"
          /\ \/ closePc' = "returned" /\ closeError' = ""
             \/ closePc' = "raised" /\ closeError' = "ConnectionError"
          /\ UNCHANGED monitoring_task
    /\ UNCHANGED <<loopOp, interaction_history, feedback_requests, health_checks,
                   loopOthers>>

\* either MaxRequests feedback requests have arrived, or
\* HealthService.initialize has created the monitoring task
LoopInit ==
    /\ loopOp \in {"feedback", "health"}
    /\ interaction_history = <<>>
    /\ feedback_requests \in
           IF loopOp = "feedback"
           THEN [1..MaxRequests ->
                    [user_id : {"u1", "u2"},
                     feedback_score : {Rat(69, 100), Rat(7, 10), RatOne},
                     pc : {"scheduled"}]]
           ELSE {<<>>}
    /\ monitoring_task =
           IF loopOp = "health"
           THEN [pc |-> "created", must_cancel |-> FALSE, cancelled |-> FALSE,
                 failed |-> 0]
           ELSE <<>>
    /\ health_checks = 0
    /\ closePc = "idle"
    /\ closeError = ""
    /\ LoopOthersIdle

LoopNext ==
    \/ \E request \in 1..MaxRequests : UpdatePeerMatchFeedback(request)
    \/ MonitoringLoop
    \/ Close

SpecLoop == LoopInit /\ [][LoopNext]_vars

(***************************************************************************)
(* Properties of the feedback store.                                       *)
(***************************************************************************)
\* the requests of a user whose call has completed
Completed(user_id) ==
    {r \in DOMAIN feedback_requests :
        /\ feedback_requests[r].user_id = user_id
        /\ feedback_requests[r].pc = "done"}

\* the record of a user, or the one update_match_feedback would start from
RecordOf(user_id) ==
    Get(interaction_history, user_id,
        [successful_matches |-> 0, total_matches |-> 0, feedback_scores |-> <<>>])

\* C22: after any sequence of update_match_feedback calls, for every user
\* total_matches is the number of calls made for the user and the length
\* of the user's list of scores, successful_matches is the number of
\* recorded scores that are at least 0.7, get_matching_analytics reports
\* success_rate = successful_matches / total_matches, and a call for one
\* user leaves the record of every other user as it was.
C22_CountersMatchCallsPerUser ==
    /\ [](loopOp = "feedback"
          => \A user_id \in {"u1", "u2"} :
                LET record == RecordOf(user_id)
                    at_least_07 == {n \in 1..Len(record.feedback_scores) :
                                       RatLeq(Rat(7, 10), record.feedback_scores[n])}
                IN  /\ record.total_matches = Cardinality(Completed(user_id))
                    /\ record.total_matches = Len(record.feedback_scores)
                    /\ record.successful_matches = Cardinality(at_least_07)
                    /\ record.total_matches > 0
                       => GetMatchingAnalytics(user_id).success_rate
                          = Rat(record.successful_matches, record.total_matches))
    /\ [][\A request \in DOMAIN feedback_requests :
             feedback_requests'[request] # feedback_requests[request]
             => \A user_id \in DOMAIN interaction_history :
                    user_id # feedback_requests[request].user_id
                    => interaction_history'[user_id] = interaction_history[user_id]]_vars

\* two calls for u1, one with a score of exactly 0.7 and one below, and one
\* call for u2 have completed
C22_Witness ==
    /\ loopOp = "feedback"
    /\ Cardinality(Completed("u1")) = 2
    /\ Cardinality(Completed("u2")) = 1
    /\ RecordOf("u1").successful_matches = 1
    /\ Rat(7, 10) \in Range(RecordOf("u1").feedback_scores)
    /\ Rat(69, 100) \in Range(RecordOf("u1").feedback_scores)

\* C30: under any interleaving of the requests on the event loop no update
\* is lost: the task of a request goes from scheduled to completed in one
\* step, and after k completed calls for a user total_matches is k and the
\* list of scores has k entries.
C30_NoLostUpdate ==
    /\ [](loopOp = "feedback"
          => /\ \A request \in DOMAIN feedback_requests :
                    feedback_requests[request].pc \in {"scheduled", "done"}
             /\ \A user_id \in {"u1", "u2"} :
                    LET k == Cardinality(Completed(user_id))
                    IN  /\ RecordOf(user_id).total_matches = k
                        /\ Len(RecordOf(user_id).feedback_scores) = k)
    /\ [][\A request \in DOMAIN feedback_requests :
             feedback_requests'[request] # feedback_requests[request]
             => LET user_id == feedback_requests[request].user_id
                IN  RecordOf(user_id).total_matches' = RecordOf(user_id).total_matches + 1]_vars

\* three requests for the same user that arrived in one order and were run
\* in another: the scores are recorded in the order the tasks ran
C30_Witness ==
    /\ loopOp = "feedback"
    /\ Cardinality(Completed("u1")) = 3
    /\ RecordOf("u1").total_matches = 3
    /\ \E a, b \in DOMAIN feedback_requests :
           /\ a < b
           /\ feedback_requests[a].feedback_score # feedback_requests[b].feedback_score
           /\ RecordOf("u1").feedback_scores[1] = feedback_requests[b].feedback_score
           /\ RecordOf("u1").feedback_scores[3] = feedback_requests[a].feedback_score

(***************************************************************************)
(* Properties of the health monitoring task.                               *)
(***************************************************************************)
\* C25: the monitoring task goes on after a health check has raised (its
\* next step takes it back to the sleep before the next check) and ends
\* only when its cancellation has been requested; once close() has
\* returned the task has finished and no health check is started any
\* more; and close() never raises CancelledError.
C25_MonitoringStopsOnlyOnClose ==
    /\ [](loopOp = "health"
          => /\ closePc = "returned" => monitoring_task.pc = "finished"
             /\ closeError # "CancelledError")
    /\ [][loopOp = "health"
          => /\ closePc = "returned" => health_checks' = health_checks
             /\ (monitoring_task.pc # "finished" /\ monitoring_task.pc' = "finished")
                => monitoring_task.must_cancel
             /\ (monitoring_task.pc = "backoff" /\ monitoring_task.pc' # "backoff"
                 /\ ~monitoring_task.must_cancel)
                => monitoring_task.pc' = "sleeping"]_vars

\* a health check raised, the task went on to a second check, and then
\* close() returned after a task that ended with CancelledError
C25_Witness ==
    /\ loopOp = "health"
    /\ monitoring_task.failed >= 1
    /\ health_checks = 2
    /\ monitoring_task.cancelled
    /\ closePc = "returned"

(***************************************************************************)
(* Properties of the generated path.                                       *)
(***************************************************************************)
\* generate_personalized_path has returned a path
Generated == lpOp = "generate" /\ lpPc = "done" /\ ~lpRaised

\* C23: the milestones of a generated path, taken in order, list the ids
\* of its objectives in sequence order, each objective in exactly one
\* milestone, and every milestone groups 2 or 3 objectives.
C23_MilestonesPartitionInGroupsOfTwoOrThree ==
    Generated
    => /\ Flatten([m \in 1..Len(lpPath.milestones) |-> lpPath.milestones[m].objectives])
          = [n \in 1..Len(lpPath.objectives) |-> lpPath.objectives[n].id]
       /\ \A m \in 1..Len(lpPath.milestones) :
              Len(lpPath.milestones[m].objectives) \in {2, 3}

\* C29: the identifiers of the objectives of a generated path are pairwise
\* distinct, for every list of goals, also when several goals map to the
\* same category of the taxonomy.
C29_ObjectiveIdsPairwiseDistinct ==
    Generated
    => \A i, j \in 1..Len(lpPath.objectives) :
           i # j => lpPath.objectives[i].id # lpPath.objectives[j].id

ForceAdmitted(result, completed, i) ==
    \A j \in i..Len(result) :
        \E prereq \in result[j].prerequisites :
            /\ prereq \notin completed
            /\ \A k \in 1..(i-1) : result[k].id # prereq

\* C28: for an input list with distinct objective ids, an objective of the
\* output of sequence_with_prerequisites has prerequisites_met = false exactly
\* when it was force-admitted; every other objective has it true.
C28_PrerequisitesMetFalseIffForceAdmitted ==
    (seqPc = "done" /\ DistinctIds(seqObjectives))
    => \A i \in 1..Len(seqResult) :
           seqResult[i].prerequisites_met
               = ~ForceAdmitted(seqResult, seqCompleted, i)

\* a cycle between A and B next to a free objective C: C is placed first, A
\* is force-admitted, B follows with its prerequisite placed
C28_Witness ==
    /\ seqPc = "done"
    /\ seqCompleted = {}
    /\ seqObjectives = <<[id |-> "A", prerequisites |-> {"B"}],
                         [id |-> "B", prerequisites |-> {"A"}],
                         [id |-> "C", prerequisites |-> {}]>>
    /\ [i \in 1..3 |-> seqResult[i].id] = <<"C", "A", "B">>
    /\ [i \in 1..3 |-> seqResult[i].prerequisites_met] = <<TRUE, FALSE, TRUE>>
    /\ ForceAdmitted(seqResult, seqCompleted, 2)

\* the client call the orchestrator made first, and what it met
FirstClient == orchResult.clients[1]

FirstEnvironment == orchStubs[orchCalls[1].provider]

\* an exception was raised after the cache lookup: the rate limit rejected
\* the call, or the provider request failed
FailedAfterCacheLookup(env) ==
    /\ env.model
    /\ ~(env.redis /\ env.cached)
    /\ env.rate_limited \/ env.response \in {"RateLimitError", "APIError"}

\* the source tags of a client's value: of the path, or of every item
SourcesOf(value) ==
    IF orchOp = "client_learning_path" THEN {Get(value, "source", "")}
    ELSE {Get(value[n], "source", "") : n \in 1..Len(value)}

\* with fallbacks enabled the first client call returns and the
\* orchestrator takes it for a provider success: one call, no retry
ClientNeverRaises ==
    /\ ~FirstClient.raised
    /\ Len(orchCalls) = 1
    /\ orchResult.outcome = "result"
    /\ ~orchResult.fallback_used

\* C27 as stated: with fallbacks enabled a provider client never raises, and
\* every failure after the cache lookup, a rate-limit rejection included,
\* gives the client's static fallback tagged source "fallback"; the
\* orchestrator sees a provider success.
C27_FailuresBecomeFallbackTaggedFallback ==
    (orchPc = "done" /\ orchOp \in ClientOperations /\ enable_fallbacks)
    => /\ ClientNeverRaises
       /\ FailedAfterCacheLookup(FirstEnvironment)
              => SourcesOf(FirstClient.value) = {"fallback"}

\* C27 amended: the same, with the tag each client gives its fallback:
\* "fallback" by the OpenAI client, "gemini_fallback" by the Gemini client.
C27_FailuresBecomeClientFallback ==
    (orchPc = "done" /\ orchOp \in ClientOperations /\ enable_fallbacks)
    => /\ ClientNeverRaises
       /\ FailedAfterCacheLookup(FirstEnvironment)
              => SourcesOf(FirstClient.value)
                     = {IF orchCalls[1].provider = "openai" THEN "fallback"
                        ELSE "gemini_fallback"}

\* the OpenAI client's request failed with an API error on a cache miss,
\* fallbacks enabled: the orchestrator made this one call and got the
\* fallback recommendations
C27_Witness ==
    /\ orchPc = "done"
    /\ orchOp = "client_recommendations"
    /\ enable_fallbacks
    /\ orchCalls[1].provider = "openai"
    /\ FirstEnvironment.redis /\ ~FirstEnvironment.cached
    /\ FirstEnvironment.response = "APIError"
    /\ ClientNeverRaises
    /\ SourcesOf(FirstClient.value) = {"fallback"}

=============================================================================
